---- MODULE Spec2Model ----
(***************************************************************************)
(* Verification model of the telemetry and transfer core of hermes:        *)
(*   - the event log store      (internal/logging/logging.go)              *)
(*   - the copy/move handlers   (internal/api, copyObject / moveObject)    *)
(*   - the request trace store  (internal/api, tracing middleware)         *)
(* Each part has its own specifications; the variables of the other parts  *)
(* stay at their initial values.  The actions model the code; the bounds   *)
(* on the number of calls are guards of the specifications' next-state     *)
(* relations.                                                              *)
(***************************************************************************)
EXTENDS Integers, Sequences, FiniteSets, TLC

\* ------------------------------------------------------------------------
\* Bounds of the model
\* ------------------------------------------------------------------------
\* len(recent): the ring capacity (1000 in logging.go:32), scaled down
RingCap == 2
\* capacity of a subscriber channel (100 in logging.go:148), scaled down
SubCap == 1
\* number of control calls (SetLevel, SetPersist, Subscribe, cancel, Recent)
\* made in one behaviour
MaxCtl == 3
\* number of write calls in one behaviour: enough to wrap the ring
MaxCalls == RingCap + 1
\* number of write calls in one behaviour: enough to overflow a channel
MaxSubCalls == SubCap + 1
\* log writes in the run with the database sink
MaxSinkCalls == MaxCalls

\* size of the object moved, in chunks read by the upload
MaxObj == 2
\* number of ticks the progress ticker delivers in one behaviour
MaxTicks == 2

\* events a handler appends to its trace
MaxEvents == 1
\* readings the clock can advance to
MaxClock == 1
\* the trace ring holds as many entries as the log ring (1000 each)
TraceCap == RingCap

Writers == {"w1", "w2"}
Reqs == {"r1", "r2"}

\* parts of an upload body, size of a part's data, and the configured
\* maximum of the body, in the same unit
MaxParts == 2
MaxPartSize == 2
MaxUpload == 3

\* most trace rows in the window obsSummary reads
MaxWin == 3
\* obsSummary's fixed numbers: minutes of buckets, sample cap per path,
\* traces a path needs for the slow list, length of the two top lists
NumBuckets == 12
LatsCap == 100
MinSlow == 3
TopSlowCut == 5
TopErrorsCut == 8
\* request paths, statuses and latencies of the rows, the second a trace
\* started in, and the clock in seconds at the call: 300 is 12 minutes before
\* the minute of the call, 960 the minute before it
Paths == {"/a", "/b"}
AggStatuses == {200, 404, 500}
AggMillis == {10, 20}
\* statuses around the limits of the classes of the status histogram
HistStatuses == {0, 101, 200, 299, 300, 399, 400, 499, 500, 599}
StartChoices == {300, 960, 1030}
NowChoices == {1030, 1079}
\* how the iteration over the buckets map goes: <<first key, backwards>>
BucketVisits == {<<0, FALSE>>, <<5, TRUE>>}
\* messages of error events, and what the query for a trace's latest error
\* event can give
Messages == {"m1", "m2"}
EvOutcomes == {"fail", "none"} \cup Messages

\* longest latency sample handed to percentile
MaxSample == 5
\* latencies in milliseconds
Millis == {10, 20, 30, 40, 50}
\* percentile ranks: 95 is the one obsSummary asks for; for the others
\* p / 100.0 is exact in float64, and for 95 and samples of up to 100
\* values int(p / 100.0 * float64(n - 1)) is the integer floor
Ranks == {-50, 0, 50, 95, 100, 150}
Codes == {500}
\* status codes handed to respondError
RespondCodes == {400, 418, 500}
Chans == {"c1", "c2"}
Sinks == {"f1", "f2"}
Levels == {"debug", "info", "error", "fatal"}
LevelInputs == Levels \cup {"bogus"}
Nil == "nil"
NoEntry == [seq |-> 0, level |-> "none"]

VARIABLES
    \* ---- event log store (logging.go) ----
    recent,      \* the ring: slot index 0..RingCap-1 -> entry or NoEntry
    nextIdx,     \* next slot to write
    nstored,     \* number of entries appendBuf has stored so far
    logLevel,    \* the global threshold
    subscribers, \* set of registered channels
    chq,         \* channel -> queue of buffered entries
    closed,      \* channel -> has close(ch) run
    created,     \* channels that Subscribe has made
    subAt,       \* channel -> entries already broadcast when Subscribe returned
    subReaders,  \* writers holding subMu.RLock (inside broadcast)
    sendOnClosed,\* a send was attempted on a closed channel (panic)
    persistFn,   \* the registered sink, or Nil
    sinkCalls,   \* set of [fn, seq]: goroutines `go fn(e)` started
    wpc,         \* writer -> position in stdLogger.write
    went,        \* writer -> entry being written
    wtodo,       \* writer -> channels the range loop has not visited yet
    wcur,        \* writer -> channel the range loop is at
    ncalls,      \* number of write calls started
    nctl,        \* number of control calls made
    exited,      \* os.Exit(1) has run
    recentOut,   \* result of the last Recent(n) call
    recentArg    \* argument of the last Recent(n) call

VARIABLES
    \* ---- copy / move handler (copyObject, moveObject) ----
    xmode,       \* "none", "copy" or "move": the handler serving the request
    hpc,         \* position of the handler
    hframe,      \* frame the handler's write closure is writing
    hnext,       \* where the handler goes on after that write
    rpc,         \* position of the progress reporter goroutine
    rframe,      \* frame the reporter's write closure is writing
    stream,      \* what w.Write has put on the response, in order
    httpStatus,  \* status set by http.Error, 0 when none
    doneClosed,  \* close(doneCh) has run
    ctxDone,     \* r.Context() is cancelled
    cancelled,   \* the client went away while the request was served
    tickC,       \* ticks buffered in ticker.C (0 or 1)
    tickerOn,    \* the ticker runs (NewTicker done, Stop not yet)
    nticks,      \* ticks delivered so far
    returned,    \* the handler has returned
    size,        \* size of the source object, in chunks
    total,       \* total reported by DownloadWithInfo (0 when unknown)
    transferred, \* chunks counted by the tee reader
    dlRes,       \* outcome of DownloadWithInfo: "none", "ok", "err"
    upRes,       \* outcome of Upload
    delRes,      \* outcome of DeleteObject
    srcPresent,  \* the source object exists
    dstPresent,  \* the destination object was written
    deleteIssued \* DeleteObject was called

xferVars == <<xmode, hpc, hframe, hnext, rpc, rframe, stream, httpStatus,
              doneClosed, ctxDone, cancelled, tickC, tickerOn, nticks,
              returned, size, total, transferred, dlRes, upRes, delRes,
              srcPresent, dstPresent, deleteIssued>>

VARIABLES
    \* ---- tracing middleware and trace store ----
    tpc,         \* request -> position in the tracing middleware
    trace,       \* request -> its Trace object
    recCode,     \* request -> statusRecorder.code
    recBytes,    \* request -> statusRecorder.bytes
    evIdx,       \* request -> index of the next event persistTrace inserts
    tbuf,        \* traces.buf: slot -> request whose trace it points to
    tnextIdx,    \* traces.next
    dbRows,      \* trace_rows table: set of rows, at most one per id
    dbEvents,    \* trace_event_rows table: set of rows
    nevRows,     \* rows inserted in trace_event_rows so far (row ids)
    now,         \* the reading of the clock
    finished,    \* request -> the terminal fields the middleware set
    rowSaved,    \* request -> db.Save of its row returned no error
    restarted,   \* the process has been restarted
    getOut       \* result of the last traceGet

traceVars == <<tpc, trace, recCode, recBytes, evIdx, tbuf, tnextIdx, dbRows,
               dbEvents, nevRows, now, finished, rowSaved, restarted, getOut>>

VARIABLES
    \* ---- aggregation (obsSummary) ----
    lats,        \* the latency sample of one path (pAgg.Lats)
    pctDone,     \* percentile has been called on the sample
    pctP,        \* the rank of that call
    pctOut,      \* what that call returned
    aggDone,     \* obsSummary has answered
    aggWin,      \* the trace rows it read, newest start first
    aggNow,      \* the clock at that call
    aggOut,      \* the view it returned
    aggStatus,   \* the status of its response, 0 before the call
    aggReadOk    \* the query for the trace rows returned no error

VARIABLES
    \* ---- a Recent call step by step ----
    rdpc,        \* "idle", "walk" (bufMu read-locked) or "done"
    rdN,         \* n after line 136
    rdI,         \* the slot the walk looks at next
    rdC,         \* the loop counter c
    rdOut,       \* out so far
    rdK0,        \* stores made when the call took the lock
    rdK1,        \* stores made when the call returned
    \* ---- the database sink of the log (db.go, gorm_logger.go) ----
    sinkRan,     \* the sink calls that ran: entry, outcome, was it logged
    \* ---- the log level endpoint (auth_logic_test.go, logsSetLevel) ----
    lvlOut,      \* the last response: level asked, status code, level returned
    \* ---- the recent-traces endpoint (auth_logic_test.go, traceRecent) ----
    trOut,       \* the response: limit asked, ids of the traces returned
    \* ---- the upload handler (auth.go, uploadObject) ----
    upc,         \* position of the handler
    upBody,      \* the parts of the request body: name and size of the data
    upLimit,     \* maxUploadSizeBytes, 0 when no maximum is configured
    upIdx,       \* the part NextPart returns next
    upRead,      \* what has been read of the body
    upInfo,      \* Upload has returned its info
    upStored,    \* an object was stored for the request
    upStatus,    \* the status of the response
    \* ---- the reader of a subscription (the consumer of Subscribe's channel) ----
    got,         \* channel -> the entries its reader has received, in order
    dropped      \* channel -> a send to it met a full queue

snapVars == <<rdpc, rdN, rdI, rdC, rdOut, rdK0, rdK1>>

pctVars == <<lats, pctDone, pctP, pctOut>>
sumVars == <<aggDone, aggWin, aggNow, aggOut, aggStatus, aggReadOk>>
aggVars == <<pctVars, sumVars>>
hookVars == <<sinkRan>>
apiVars == <<lvlOut, trOut>>
upVars == <<upc, upBody, upLimit, upIdx, upRead, upInfo, upStored, upStatus>>
feedVars == <<got, dropped>>

ringVars == <<recent, nextIdx, nstored>>
subVars == <<subscribers, chq, closed, created, subAt, subReaders,
            sendOnClosed>>
sinkVars == <<persistFn, sinkCalls>>
writerVars == <<wpc, went, wtodo, wcur, ncalls>>
readVars == <<recentOut, recentArg>>
logVars == <<ringVars, logLevel, subVars, sinkVars, writerVars, nctl, exited,
             readVars>>

vars == <<logVars, xferVars, traceVars, aggVars, snapVars, hookVars, apiVars,
         upVars, feedVars>>

\* ------------------------------------------------------------------------
\* Event log store
\* ------------------------------------------------------------------------
order(l) ==
    CASE l = "debug" -> 0
      [] l = "info"  -> 1
      [] l = "error" -> 2
      [] l = "fatal" -> 3
      [] OTHER       -> 0

\* a level check that also drops the entries at the threshold itself
shouldLogStrict(lvl) == order(lvl) > order(logLevel)

shouldLog(lvl) == order(lvl) >= order(logLevel)

LogInit ==
    /\ recent = [i \in 0..(RingCap - 1) |-> NoEntry]
    /\ nextIdx = 0
    /\ nstored = 0
    /\ logLevel = "info"
    /\ subscribers = {}
    /\ chq = [c \in Chans |-> <<>>]
    /\ closed = [c \in Chans |-> FALSE]
    /\ created = {}
    /\ subAt = [c \in Chans |-> {}]
    /\ subReaders = {}
    /\ sendOnClosed = FALSE
    /\ persistFn = Nil
    /\ sinkCalls = {}
    /\ wpc = [w \in Writers |-> "idle"]
    /\ went = [w \in Writers |-> NoEntry]
    /\ wtodo = [w \in Writers |-> {}]
    /\ wcur = [w \in Writers |-> Nil]
    /\ ncalls = 0
    /\ nctl = 0
    /\ exited = FALSE
    /\ recentOut = <<>>
    /\ recentArg = 0

\* a control call is made while the process runs
Ctl ==
    /\ ~exited
    /\ nctl' = nctl + 1

\* a variant of SetLevel that keeps the threshold when the value is not a level
SetLevelKeep(lvl) ==
    /\ Ctl
    /\ logLevel' = IF lvl \in Levels THEN lvl ELSE logLevel
    /\ UNCHANGED <<ringVars, subVars, sinkVars, writerVars, exited, readVars>>

SetLevel(lvl) ==
    /\ Ctl
    /\ logLevel' = IF lvl \in Levels THEN lvl ELSE "info"
    /\ UNCHANGED <<ringVars, subVars, sinkVars, writerVars, exited, readVars>>

GetLevel == logLevel

NoLevelOut == [arg |-> Nil, code |-> 0, level |-> Nil]

NoRecent == [done |-> FALSE, n |-> 0, ids |-> <<>>]

ApiInit == lvlOut = NoLevelOut /\ trOut = NoRecent

\* logsSetLevel, auth_logic_test.go lines 189-204: an empty level is answered
\* with 400 and changes nothing; any other value goes to SetLevel and the
\* answer carries what GetLevel returns
logsSetLevel(lvl) ==
    /\ IF lvl = ""
       THEN /\ Ctl
            /\ UNCHANGED <<ringVars, logLevel, subVars, sinkVars, writerVars,
                           exited, readVars>>
            /\ lvlOut' = [arg |-> lvl, code |-> 400, level |-> Nil]
       ELSE /\ SetLevel(lvl)
            /\ lvlOut' = [arg |-> lvl, code |-> 200, level |-> GetLevel']

SetPersist(fn) ==
    /\ Ctl
    /\ persistFn' = fn
    /\ UNCHANGED <<ringVars, logLevel, subVars, sinkCalls, writerVars, exited,
                   readVars>>

\* stdLogger.write, lines 112-114: the level check and the creation of e
WriteCall(w, lvl) ==
    /\ ~exited
    /\ wpc[w] = "idle"
    /\ ncalls' = ncalls + 1
    /\ went' = [went EXCEPT ![w] = [seq |-> 0, level |-> lvl]]
    /\ wpc' = [wpc EXCEPT ![w] =
                 IF shouldLog(lvl) THEN "append"
                 ELSE IF lvl = "fatal" THEN "exit" ELSE "idle"]
    /\ UNCHANGED <<ringVars, logLevel, subVars, sinkVars, wtodo, wcur, nctl,
                   exited, readVars>>

\* appendBuf, lines 91-92: the store into the ring; seq names the entry by
\* its place in the order of stores
StoreEntry(w) ==
    /\ ~exited
    /\ wpc[w] = "append"
    /\ LET e == [went[w] EXCEPT !.seq = nstored + 1] IN
         /\ recent' = [recent EXCEPT ![nextIdx] = e]
         /\ went' = [went EXCEPT ![w] = e]
    /\ nextIdx' = (nextIdx + 1) % RingCap
    /\ nstored' = nstored + 1
    /\ wpc' = [wpc EXCEPT ![w] = "rlock"]
    /\ UNCHANGED <<logLevel, subVars, sinkVars, wtodo, wcur, ncalls, nctl,
                   exited, readVars>>

\* a store that does not wait for the readers of the ring
AppendBufNoLock(w) ==
    StoreEntry(w)

\* appendBuf, lines 90-93: the store under bufMu.Lock, which waits while a
\* Recent call holds bufMu.RLock
AppendBuf(w) ==
    /\ rdpc # "walk"
    /\ StoreEntry(w)

\* broadcast, line 83: subMu.RLock and the start of the range loop
BroadcastLock(w) ==
    /\ ~exited
    /\ wpc[w] = "rlock"
    /\ subReaders' = subReaders \cup {w}
    /\ wtodo' = [wtodo EXCEPT ![w] = subscribers]
    /\ wpc' = [wpc EXCEPT ![w] = "range"]
    /\ UNCHANGED <<ringVars, logLevel, subscribers, chq, closed, created, subAt,
                   sendOnClosed, sinkVars, went, wcur, ncalls, nctl, exited,
                   readVars>>

\* broadcast, line 84: the range loop yields the next channel (map order is
\* unspecified), or ends and the deferred RUnlock runs
BroadcastRange(w) ==
    /\ ~exited
    /\ wpc[w] = "range"
    /\ \/ /\ wtodo[w] # {}
          /\ \E ch \in wtodo[w] :
                /\ wcur' = [wcur EXCEPT ![w] = ch]
                /\ wtodo' = [wtodo EXCEPT ![w] = @ \ {ch}]
          /\ wpc' = [wpc EXCEPT ![w] = "send"]
          /\ UNCHANGED subReaders
       \/ /\ wtodo[w] = {}
          /\ subReaders' = subReaders \ {w}
          /\ wpc' = [wpc EXCEPT ![w] = "persist"]
          /\ UNCHANGED <<wcur, wtodo>>
    /\ UNCHANGED <<ringVars, logLevel, subscribers, chq, closed, created, subAt,
                   sendOnClosed, sinkVars, went, ncalls, nctl, exited,
                   readVars>>

\* a send without the default case: it waits for room in the channel
BroadcastSendBlocking(w) ==
    /\ ~exited
    /\ wpc[w] = "send"
    /\ LET ch == wcur[w] IN
         /\ closed[ch] \/ Len(chq[ch]) < SubCap
         /\ IF closed[ch]
            THEN /\ sendOnClosed' = TRUE
                 /\ UNCHANGED chq
            ELSE /\ chq' = [chq EXCEPT ![ch] = Append(@, went[w])]
                 /\ UNCHANGED sendOnClosed
    /\ wpc' = [wpc EXCEPT ![w] = "range"]
    /\ UNCHANGED <<ringVars, logLevel, subscribers, closed, created, subAt,
                   subReaders, sinkVars, went, wtodo, wcur, ncalls, nctl,
                   exited, readVars>>

\* a send that makes room in a full queue by dropping its oldest entry
BroadcastSendDropOldest(w) ==
    /\ ~exited
    /\ wpc[w] = "send"
    /\ LET ch == wcur[w] IN
         IF closed[ch]
         THEN /\ sendOnClosed' = TRUE
              /\ UNCHANGED chq
         ELSE IF Len(chq[ch]) < SubCap
         THEN /\ chq' = [chq EXCEPT ![ch] = Append(@, went[w])]
              /\ UNCHANGED sendOnClosed
         ELSE /\ chq' = [chq EXCEPT ![ch] = Append(Tail(@), went[w])]
              /\ UNCHANGED sendOnClosed
    /\ wpc' = [wpc EXCEPT ![w] = "range"]
    /\ UNCHANGED <<ringVars, logLevel, subscribers, closed, created, subAt,
                   subReaders, sinkVars, went, wtodo, wcur, ncalls, nctl,
                   exited, readVars>>

\* broadcast, line 85: select { case ch <- e: default: }
BroadcastSend(w) ==
    /\ ~exited
    /\ wpc[w] = "send"
    /\ LET ch == wcur[w] IN
         IF closed[ch]
         THEN /\ sendOnClosed' = TRUE
              /\ UNCHANGED chq
         ELSE IF Len(chq[ch]) < SubCap
         THEN /\ chq' = [chq EXCEPT ![ch] = Append(@, went[w])]
              /\ UNCHANGED sendOnClosed
         ELSE UNCHANGED <<chq, sendOnClosed>>
    /\ wpc' = [wpc EXCEPT ![w] = "range"]
    /\ UNCHANGED <<ringVars, logLevel, subscribers, closed, created, subAt,
                   subReaders, sinkVars, went, wtodo, wcur, ncalls, nctl,
                   exited, readVars>>

\* a variant of Persist that calls the sink in line: the write goes on only
\* when the sink calls started before have ended
PersistAwaitSink(w) ==
    /\ ~exited
    /\ wpc[w] = "persist"
    /\ \A c \in sinkCalls : \E r \in sinkRan : r.seq = c.seq
    /\ sinkCalls' = IF persistFn # Nil
                    THEN sinkCalls \cup {[fn |-> persistFn, seq |-> went[w].seq]}
                    ELSE sinkCalls
    /\ wpc' = [wpc EXCEPT ![w] =
                 IF went[w].level = "fatal" THEN "exit" ELSE "idle"]
    /\ UNCHANGED <<ringVars, logLevel, subVars, persistFn, went, wtodo, wcur,
                   ncalls, nctl, exited, readVars>>

\* a variant of Persist that keeps every sink ever handed to SetPersist: the
\* entry goes to both sinks, whatever persistFn holds
PersistEverySink(w) ==
    /\ ~exited
    /\ wpc[w] = "persist"
    /\ sinkCalls' = sinkCalls \cup {[fn |-> f, seq |-> went[w].seq] : f \in Sinks}
    /\ wpc' = [wpc EXCEPT ![w] =
                 IF went[w].level = "fatal" THEN "exit" ELSE "idle"]
    /\ UNCHANGED <<ringVars, logLevel, subVars, persistFn, went, wtodo, wcur,
                   ncalls, nctl, exited, readVars>>

\* appendBuf, lines 96-97: read persistFn, start `go fn(e)` when set; then
\* stdLogger.write, lines 116-125: the line printed under l.mu (it touches
\* nothing but the process's log output) and the return; Fatal goes on to
\* os.Exit
Persist(w) ==
    /\ ~exited
    /\ wpc[w] = "persist"
    /\ sinkCalls' = IF persistFn # Nil
                    THEN sinkCalls \cup {[fn |-> persistFn, seq |-> went[w].seq]}
                    ELSE sinkCalls
    /\ wpc' = [wpc EXCEPT ![w] =
                 IF went[w].level = "fatal" THEN "exit" ELSE "idle"]
    /\ UNCHANGED <<ringVars, logLevel, subVars, persistFn, went, wtodo, wcur,
                   ncalls, nctl, exited, readVars>>

\* stdLogger.Fatal, line 131: os.Exit(1) after write
FatalExit(w) ==
    /\ ~exited
    /\ wpc[w] = "exit"
    /\ exited' = TRUE
    /\ UNCHANGED <<ringVars, logLevel, subVars, sinkVars, writerVars, nctl,
                   readVars>>

\* the entries whose write has left broadcast (logging.go lines 82-87, 94)
WrittenOut ==
    {s \in 1..nstored :
        \A w \in Writers : wpc[w] \in {"rlock", "range", "send"} => went[w].seq # s}

\* a variant of Subscribe that starts the feed with the newest stored entry
SubscribeReplay(ch) ==
    /\ Ctl
    /\ ch \notin created
    /\ subReaders = {}
    /\ created' = created \cup {ch}
    /\ subAt' = [subAt EXCEPT ![ch] = WrittenOut]
    /\ subscribers' = subscribers \cup {ch}
    /\ chq' = [chq EXCEPT ![ch] =
                 IF nstored > 0
                 THEN <<recent[(nextIdx + RingCap - 1) % RingCap]>>
                 ELSE <<>>]
    /\ UNCHANGED <<ringVars, logLevel, closed, subReaders, sendOnClosed,
                   sinkVars, writerVars, exited, readVars>>

\* Subscribe, lines 148-149 (subMu.Lock: no reader may hold the lock)
Subscribe(ch) ==
    /\ Ctl
    /\ ch \notin created
    /\ subReaders = {}
    /\ created' = created \cup {ch}
    /\ subAt' = [subAt EXCEPT ![ch] = WrittenOut]
    /\ subscribers' = subscribers \cup {ch}
    /\ UNCHANGED <<ringVars, logLevel, chq, closed, subReaders, sendOnClosed,
                   sinkVars, writerVars, exited, readVars>>

\* a cancel that closes the channel without taking subMu
CancelNoLock(ch) ==
    /\ Ctl
    /\ ch \in created
    /\ ~closed[ch]
    /\ subscribers' = subscribers \ {ch}
    /\ closed' = [closed EXCEPT ![ch] = TRUE]
    /\ UNCHANGED <<ringVars, logLevel, chq, created, subAt, subReaders, sendOnClosed,
                   sinkVars, writerVars, exited, readVars>>

\* the cancel func of Subscribe, line 150 (subMu.Lock; delete; close)
Cancel(ch) ==
    /\ Ctl
    /\ ch \in created
    /\ ~closed[ch]
    /\ subReaders = {}
    /\ subscribers' = subscribers \ {ch}
    /\ closed' = [closed EXCEPT ![ch] = TRUE]
    /\ UNCHANGED <<ringVars, logLevel, chq, created, subAt, subReaders, sendOnClosed,
                   sinkVars, writerVars, exited, readVars>>

\* a subscriber takes one entry from its channel
Receive(ch) ==
    /\ ~exited
    /\ ch \in created
    /\ chq[ch] # <<>>
    /\ chq' = [chq EXCEPT ![ch] = Tail(@)]
    /\ UNCHANGED <<ringVars, logLevel, subscribers, closed, created, subAt,
                   subReaders, sendOnClosed, sinkVars, writerVars, nctl,
                   exited, readVars>>

\* a walk that puts each entry it meets in front of the ones it has
RECURSIVE RecentWalkOldestFirst(_, _, _, _)
RecentWalkOldestFirst(i, c, n, out) ==
    IF c < RingCap /\ Len(out) < n
    THEN RecentWalkOldestFirst((i - 1 + RingCap) % RingCap, c + 1, n,
                    IF recent[i] # NoEntry THEN <<recent[i]>> \o out ELSE out)
    ELSE out

\* Recent, lines 134-144: the walk from nextIdx-1 backwards, skipping nil
RECURSIVE RecentWalk(_, _, _, _)
RecentWalk(i, c, n, out) ==
    IF c < RingCap /\ Len(out) < n
    THEN RecentWalk((i - 1 + RingCap) % RingCap, c + 1, n,
                    IF recent[i] # NoEntry THEN Append(out, recent[i]) ELSE out)
    ELSE out

Recent(n) ==
    LET m == IF n <= 0 \/ n > RingCap THEN RingCap ELSE n
    IN  RecentWalk((nextIdx - 1 + RingCap) % RingCap, 0, m, <<>>)

RecentCall(n) ==
    /\ Ctl
    /\ recentOut' = Recent(n)
    /\ recentArg' = n
    /\ UNCHANGED <<ringVars, logLevel, subVars, sinkVars, writerVars, exited>>

SnapInit ==
    /\ rdpc = "idle"
    /\ rdN = 0
    /\ rdI = 0
    /\ rdC = 0
    /\ rdOut = <<>>
    /\ rdK0 = 0
    /\ rdK1 = 0

\* Recent, lines 135-138: bufMu.RLock, the clamp of n, the start of the walk
RecentLock(n) ==
    /\ ~exited
    /\ rdpc = "idle"
    /\ rdpc' = "walk"
    /\ rdN' = IF n <= 0 \/ n > RingCap THEN RingCap ELSE n
    /\ rdI' = (nextIdx - 1 + RingCap) % RingCap
    /\ rdC' = 0
    /\ rdOut' = <<>>
    /\ rdK0' = nstored
    /\ UNCHANGED <<rdK1, logVars>>

\* Recent, lines 139-142: one turn of the loop
RecentIter ==
    /\ ~exited
    /\ rdpc = "walk"
    /\ rdC < RingCap /\ Len(rdOut) < rdN
    /\ rdOut' = IF recent[rdI] # NoEntry THEN Append(rdOut, recent[rdI])
                ELSE rdOut
    /\ rdI' = (rdI - 1 + RingCap) % RingCap
    /\ rdC' = rdC + 1
    /\ UNCHANGED <<rdpc, rdN, rdK0, rdK1, logVars>>

\* Recent, lines 135 and 143: the loop is over, out is returned and the
\* deferred RUnlock runs
RecentUnlock ==
    /\ ~exited
    /\ rdpc = "walk"
    /\ ~(rdC < RingCap /\ Len(rdOut) < rdN)
    /\ rdpc' = "done"
    /\ rdK1' = nstored
    /\ UNCHANGED <<rdN, rdI, rdC, rdOut, rdK0, logVars>>

\* the steps of a write call after its level check
WriterRun(w) ==
    \/ AppendBuf(w)
    \/ BroadcastLock(w)
    \/ BroadcastRange(w)
    \/ BroadcastSend(w)
    \/ Persist(w)
    \/ FatalExit(w)

FeedInit ==
    /\ got = [c \in Chans |-> <<>>]
    /\ dropped = [c \in Chans |-> FALSE]

\* the reader of a subscription takes the next entry from the channel (a Go
\* channel hands its elements over in the order of the sends) and keeps it
ReceiveKeep(ch) ==
    /\ Receive(ch)
    /\ got' = [got EXCEPT ![ch] = Append(@, Head(chq[ch]).seq)]
    /\ UNCHANGED dropped

\* a writer's step; line 85: the send takes the default case when the
\* channel is full, and the entry is lost for that subscriber
WriterRunFeed(w) ==
    /\ WriterRun(w)
    /\ dropped' = IF /\ wpc[w] = "send"
                     /\ ~closed[wcur[w]]
                     /\ Len(chq[wcur[w]]) >= SubCap
                  THEN [dropped EXCEPT ![wcur[w]] = TRUE]
                  ELSE dropped
    /\ UNCHANGED got

\* ------------------------------------------------------------------------
\* The database sink registered by db.Init (db.go lines 64-80), run by the
\* goroutine that appendBuf starts with `go fn(e)`; its return value goes
\* nowhere (logging.go line 97)
\* ------------------------------------------------------------------------
\* the writer that stands for the sink goroutine when it logs
SinkWriter == "w2"

HookInit == sinkRan = {}

\* the calls appendBuf has started that have not run yet
SinkPending == {c \in sinkCalls : \A r \in sinkRan : r.seq # c.seq}

\* db.go lines 65-78: the entry goes through JSON into a LogEntry row and
\* DB.Create stores it
SinkOk(c) ==
    /\ ~exited
    /\ c \in SinkPending
    /\ sinkRan' = sinkRan \cup {[seq |-> c.seq, out |-> "ok", logged |-> FALSE]}
    /\ UNCHANGED logVars

\* db.go lines 66-75: json.Marshal fails on the entry's fields (its error is
\* dropped at line 66), json.Unmarshal then fails on the empty bytes and the
\* hook returns nil at line 74: no row, no log line
SinkEncodeFail(c) ==
    /\ ~exited
    /\ c \in SinkPending
    /\ sinkRan' = sinkRan \cup
                     {[seq |-> c.seq, out |-> "encerr", logged |-> FALSE]}
    /\ UNCHANGED logVars

\* db.go line 78: DB.Create fails; gorm reports the statement to the logger
\* it was opened with, gormJSONLogger.Trace (gorm_logger.go lines 54-81; its
\* level is Error or above, db.go lines 27-35), which calls
\* logger.Error("gorm_sql", ..., "error", err): a write at level error by the
\* sink goroutine, kept when the threshold lets error through
SinkDbFail(c) ==
    /\ c \in SinkPending
    /\ WriteCall(SinkWriter, "error")
    /\ sinkRan' = sinkRan \cup
                     {[seq |-> c.seq, out |-> "dberr", logged |-> shouldLog("error")]}

\* ------------------------------------------------------------------------
\* Copy / move handlers
\* ------------------------------------------------------------------------
NoFrame == [kind |-> "none"]
ErrorFrame == [kind |-> "error"]
StartingFrame(tot) == [kind |-> "starting", total |-> tot]
DoneFrame(b, tot) ==
    [kind |-> "done", progress |-> 100, bytes |-> b, total |-> tot]

\* lines 1016-1019: pct := 0; if total > 0 { pct = int(transferred/total*100) }
Pct(b, tot) == IF tot > 0 THEN (b * 100) \div tot ELSE 0

ProgressFrame(b, tot) ==
    [kind |-> "progress", progress |-> Pct(b, tot), bytes |-> b, total |-> tot]

Body(f, who) == [t |-> "body", f |-> f, by |-> who]
Newline(who) == [t |-> "nl", f |-> NoFrame, by |-> who]

XferInit ==
    /\ xmode = "none"
    /\ hpc = "idle"
    /\ hframe = NoFrame
    /\ hnext = "idle"
    /\ rpc = "none"
    /\ rframe = NoFrame
    /\ stream = <<>>
    /\ httpStatus = 0
    /\ doneClosed = FALSE
    /\ ctxDone = FALSE
    /\ cancelled = FALSE
    /\ tickC = 0
    /\ tickerOn = FALSE
    /\ nticks = 0
    /\ returned = FALSE
    /\ size = 0
    /\ total = 0
    /\ transferred = 0
    /\ dlRes = "none"
    /\ upRes = "none"
    /\ delRes = "none"
    /\ srcPresent = TRUE
    /\ dstPresent = FALSE
    /\ deleteIssued = FALSE

storeVars == <<srcPresent, dstPresent, deleteIssued>>
resVars == <<dlRes, upRes, delRes>>
tickVars == <<tickC, tickerOn, nticks>>
ctxVars == <<ctxDone, cancelled>>
repVars == <<rpc, rframe>>

\* a copy or move request for an object of sz chunks reaches its handler
HRequest(mode, sz) ==
    /\ hpc = "idle"
    /\ xmode' = mode
    /\ size' = sz
    /\ hpc' = "validate"
    /\ UNCHANGED <<hframe, hnext, repVars, stream, httpStatus, doneClosed,
                   ctxVars, tickVars, returned, total, transferred, resVars,
                   storeVars>>

\* the provider id of the URL (0: not a positive number) and the request
\* body: did json Decode accept it, and the two required fields
Pids == {0, 1}
Bodies == [decoded : BOOLEAN, srcKey : {"", "k"}, dstBucket : {"", "b"}]

\* a check that leaves out dstBucket
ValidRequestSrcOnly(pid, body) ==
    /\ pid > 0
    /\ body.decoded
    /\ ~(body.srcKey = "")

\* copyObject lines 940-959, moveObject lines 1041-1060: the three checks
\* that answer 400
ValidRequest(pid, body) ==
    /\ pid > 0
    /\ body.decoded
    /\ ~(body.srcKey = "" \/ body.dstBucket = "")

\* lines 1041-1063: provider id, body decoding, required fields
HValidate(valid) ==
    /\ hpc = "validate"
    /\ IF valid
       THEN /\ hpc' = "resolve"
            /\ UNCHANGED httpStatus
       ELSE /\ hpc' = "return"
            /\ httpStatus' = 400
    /\ UNCHANGED <<xmode, hframe, hnext, repVars, stream, doneClosed,
                   ctxVars, tickVars, returned, size, total, transferred,
                   resVars, storeVars>>

\* lines 1080-1093: getClient for the source and the destination provider
HResolve(found) ==
    /\ hpc = "resolve"
    /\ IF found
       THEN /\ hpc' = "download"
            /\ UNCHANGED httpStatus
       ELSE /\ hpc' = "return"
            /\ httpStatus' = 404
    /\ UNCHANGED <<xmode, hframe, hnext, repVars, stream, doneClosed,
                   ctxVars, tickVars, returned, size, total, transferred,
                   resVars, storeVars>>

\* lines 1096-1102: DownloadWithInfo; on error the error frame and return,
\* else the starting frame (total is 0 when the size is not known)
HDownload(ok, known) ==
    /\ hpc = "download"
    /\ IF ok
       THEN /\ dlRes' = "ok"
            /\ total' = IF known THEN size ELSE 0
            /\ hframe' = StartingFrame(total')
            /\ hnext' = "spawn"
       ELSE /\ dlRes' = "err"
            /\ total' = 0
            /\ hframe' = ErrorFrame
            /\ hnext' = "return"
    /\ hpc' = "wbody"
    /\ UNCHANGED <<xmode, repVars, stream, httpStatus, doneClosed, ctxVars,
                   tickVars, returned, size, transferred, upRes, delRes,
                   storeVars>>

\* the write closure, lines 1071-1072: w.Write(b)
HWriteBody ==
    /\ hpc = "wbody"
    /\ stream' = Append(stream, Body(hframe, "h"))
    /\ hpc' = "wnl"
    /\ UNCHANGED <<xmode, hframe, hnext, repVars, httpStatus, doneClosed,
                   ctxVars, tickVars, returned, size, total, transferred,
                   resVars, storeVars>>

\* the write closure, lines 1073-1076: w.Write("\n") and the flush
HWriteNl ==
    /\ hpc = "wnl"
    /\ stream' = Append(stream, Newline("h"))
    /\ hpc' = hnext
    /\ UNCHANGED <<xmode, hframe, hnext, repVars, httpStatus, doneClosed,
                   ctxVars, tickVars, returned, size, total, transferred,
                   resVars, storeVars>>

\* lines 1105-1124: doneCh, the ticker and the reporter goroutine
HSpawn ==
    /\ hpc = "spawn"
    /\ tickerOn' = TRUE
    /\ rpc' = "select"
    /\ hpc' = "upload"
    /\ UNCHANGED <<xmode, hframe, hnext, rframe, stream, httpStatus,
                   doneClosed, ctxVars, tickC, nticks, returned, size, total,
                   transferred, resVars, storeVars>>

\* lines 1127-1129: Upload reads one more chunk through the tee reader
HUploadRead ==
    /\ hpc = "upload"
    /\ transferred < size
    /\ transferred' = transferred + 1
    /\ UNCHANGED <<xmode, hpc, hframe, hnext, repVars, stream, httpStatus,
                   doneClosed, ctxVars, tickVars, returned, size, total,
                   resVars, storeVars>>

\* the handler after Upload has returned nil: copy closes doneCh and writes
\* the done frame (lines 1033-1034), move deletes the source first
AfterUploadOk == IF xmode = "move" THEN "delete" ELSE "closedone"

\* a handler that goes on to the delete whatever Upload returned
HUploadEndNoReturn(ok) ==
    /\ hpc = "upload"
    /\ ok => transferred = size
    /\ upRes' = IF ok THEN "ok" ELSE "err"
    /\ dstPresent' = (dstPresent \/ ok)
    /\ hpc' = AfterUploadOk
    /\ UNCHANGED <<xmode, hframe, hnext, repVars, stream, httpStatus,
                   doneClosed, ctxVars, tickVars, returned, size, total,
                   transferred, dlRes, delRes, srcPresent, deleteIssued>>

\* lines 1129-1133: Upload returns; it can succeed only when it has read the
\* whole object; on error the error frame, close(doneCh) and return
HUploadEnd(ok) ==
    /\ hpc = "upload"
    /\ ok => transferred = size
    /\ upRes' = IF ok THEN "ok" ELSE "err"
    /\ dstPresent' = (dstPresent \/ ok)
    /\ IF ok
       THEN /\ hpc' = AfterUploadOk
            /\ UNCHANGED <<hframe, hnext>>
       ELSE /\ hframe' = ErrorFrame
            /\ hnext' = "closeret"
            /\ hpc' = "wbody"
    /\ UNCHANGED <<xmode, repVars, stream, httpStatus, doneClosed, ctxVars,
                   tickVars, returned, size, total, transferred, dlRes,
                   delRes, srcPresent, deleteIssued>>

\* moveObject, lines 1135-1139: DeleteObject on the source; on error the
\* error frame, close(doneCh) and return
HDelete(ok) ==
    /\ hpc = "delete"
    /\ deleteIssued' = TRUE
    /\ delRes' = IF ok THEN "ok" ELSE "err"
    /\ srcPresent' = (srcPresent /\ ~ok)
    /\ IF ok
       THEN /\ hpc' = "closedone"
            /\ UNCHANGED <<hframe, hnext>>
       ELSE /\ hframe' = ErrorFrame
            /\ hnext' = "closeret"
            /\ hpc' = "wbody"
    /\ UNCHANGED <<xmode, repVars, stream, httpStatus, doneClosed, ctxVars,
                   tickVars, returned, size, total, transferred, dlRes,
                   upRes, dstPresent>>

\* lines 1131-1132 and 1137-1138: close(doneCh) after an error frame
HCloseAfterError ==
    /\ hpc = "closeret"
    /\ doneClosed' = TRUE
    /\ hpc' = "return"
    /\ UNCHANGED <<xmode, hframe, hnext, repVars, stream, httpStatus,
                   ctxVars, tickVars, returned, size, total, transferred,
                   resVars, storeVars>>

\* lines 1140-1141: close(doneCh), then the done frame
HCloseBeforeDone ==
    /\ hpc = "closedone"
    /\ doneClosed' = TRUE
    /\ hframe' = DoneFrame(transferred, total)
    /\ hnext' = "return"
    /\ hpc' = "wbody"
    /\ UNCHANGED <<xmode, repVars, stream, httpStatus, ctxVars, tickVars,
                   returned, size, total, transferred, resVars, storeVars>>

\* the handler returns: the deferred ticker.Stop() runs, and net/http
\* cancels the request's context
HReturn ==
    /\ hpc = "return"
    /\ returned' = TRUE
    /\ tickerOn' = FALSE
    /\ ctxDone' = TRUE
    /\ hpc' = "done"
    /\ UNCHANGED <<xmode, hframe, hnext, repVars, stream, httpStatus,
                   doneClosed, cancelled, tickC, nticks, size, total,
                   transferred, resVars, storeVars>>

\* lines 1111-1113: select takes <-r.Context().Done()
RSelectCtx ==
    /\ rpc = "select"
    /\ ctxDone
    /\ rpc' = "exit"
    /\ UNCHANGED <<xmode, hpc, hframe, hnext, rframe, stream, httpStatus,
                   doneClosed, ctxVars, tickVars, returned, size, total,
                   transferred, resVars, storeVars>>

\* lines 1114-1115: select takes <-doneCh
RSelectDone ==
    /\ rpc = "select"
    /\ doneClosed
    /\ rpc' = "exit"
    /\ UNCHANGED <<xmode, hpc, hframe, hnext, rframe, stream, httpStatus,
                   doneClosed, ctxVars, tickVars, returned, size, total,
                   transferred, resVars, storeVars>>

\* lines 1116-1121: select takes <-ticker.C (select picks any ready case)
\* and the progress frame is built
RSelectTick ==
    /\ rpc = "select"
    /\ tickC = 1
    /\ tickC' = 0
    /\ rframe' = ProgressFrame(transferred, total)
    /\ rpc' = "wbody"
    /\ UNCHANGED <<xmode, hpc, hframe, hnext, stream, httpStatus, doneClosed,
                   ctxVars, tickerOn, nticks, returned, size, total,
                   transferred, resVars, storeVars>>

\* the write closure called by the reporter: w.Write(b)
RWriteBody ==
    /\ rpc = "wbody"
    /\ stream' = Append(stream, Body(rframe, "r"))
    /\ rpc' = "wnl"
    /\ UNCHANGED <<xmode, hpc, hframe, hnext, rframe, httpStatus, doneClosed,
                   ctxVars, tickVars, returned, size, total, transferred,
                   resVars, storeVars>>

\* the write closure called by the reporter: w.Write("\n") and the flush
RWriteNl ==
    /\ rpc = "wnl"
    /\ stream' = Append(stream, Newline("r"))
    /\ rpc' = "select"
    /\ UNCHANGED <<xmode, hpc, hframe, hnext, rframe, httpStatus, doneClosed,
                   ctxVars, tickVars, returned, size, total, transferred,
                   resVars, storeVars>>

\* line 1107: the ticker puts a tick in ticker.C (capacity 1) every 300 ms
\* until Stop
Tick ==
    /\ tickerOn
    /\ tickC = 0
    /\ tickC' = 1
    /\ nticks' = nticks + 1
    /\ UNCHANGED <<xmode, hpc, hframe, hnext, repVars, stream, httpStatus,
                   doneClosed, ctxVars, tickerOn, returned, size, total,
                   transferred, resVars, storeVars>>

\* the client disconnects while its request is served
ClientCancel ==
    /\ hpc \notin {"idle", "done"}
    /\ ~ctxDone
    /\ ctxDone' = TRUE
    /\ cancelled' = TRUE
    /\ UNCHANGED <<xmode, hpc, hframe, hnext, repVars, stream, httpStatus,
                   doneClosed, tickVars, returned, size, total, transferred,
                   resVars, storeVars>>

HandlerStep ==
    \/ \E pid \in Pids, body \in Bodies : HValidate(ValidRequest(pid, body))
    \/ \E found \in BOOLEAN : HResolve(found)
    \/ \E ok \in BOOLEAN, known \in BOOLEAN : HDownload(ok, known)
    \/ HWriteBody
    \/ HWriteNl
    \/ HSpawn
    \/ HUploadRead
    \/ \E ok \in BOOLEAN : HUploadEnd(ok)
    \/ \E ok \in BOOLEAN : HDelete(ok)
    \/ HCloseAfterError
    \/ HCloseBeforeDone
    \/ HReturn

ReporterExit == RSelectCtx \/ RSelectDone

ReporterStep ==
    \/ ReporterExit
    \/ RSelectTick
    \/ RWriteBody
    \/ RWriteNl

\* ------------------------------------------------------------------------
\* Upload handler: uploadObject, auth.go lines 841-912
\* ------------------------------------------------------------------------
Parts == [name : {"key", "file"}, sz : 1..MaxPartSize]
UploadBodies == UNION {[1..n -> Parts] : n \in 1..MaxParts}

UploadInit ==
    /\ upc = "idle"
    /\ upBody = <<>>
    /\ upLimit = 0
    /\ upIdx = 1
    /\ upRead = 0
    /\ upInfo = FALSE
    /\ upStored = FALSE
    /\ upStatus = 0

\* the size of the body: every part is a header (boundary line and part
\* headers, one unit) and its data; the closing boundary is one unit
RECURSIVE PartsSize(_)
PartsSize(b) ==
    IF b = <<>> THEN 0 ELSE 1 + b[1].sz + PartsSize(Tail(b))

BodySize(b) == PartsSize(b) + 1

\* http.MaxBytesReader (line 860): k more units can be read unless that
\* passes the maximum; without a maximum everything can be read
CanRead(k) == upLimit = 0 \/ upRead + k <= upLimit

\* the errors r.MultipartReader() returns: it looks at the Content-Type
\* header and reads nothing of the body
MultipartReaderErrs ==
    {"request Content-Type isn't multipart/form-data",
     "no multipart boundary param in Content-Type"}

\* lines 865-866: strings.Contains(strings.ToLower(msg), "request body too
\* large"), on the messages that occur
IsTooLarge(msg) ==
    msg \in {"http: request body too large",
             "multipart: NextPart: http: request body too large"}

\* an upload request with this body reaches the handler; the configured
\* maximum is limit
UpRequest(body, limit) ==
    /\ upc = "idle"
    /\ upBody' = body
    /\ upLimit' = limit
    /\ upc' = "check"
    /\ UNCHANGED <<upIdx, upRead, upInfo, upStored, upStatus>>

\* lines 843-857: provider id, bucket name, getClient
UpCheck(res) ==
    /\ upc = "check"
    /\ IF res = "ok"
       THEN upc' = "reader" /\ UNCHANGED upStatus
       ELSE /\ upc' = "done"
            /\ upStatus' = IF res = "noprovider" THEN 404 ELSE 400
    /\ UNCHANGED <<upBody, upLimit, upIdx, upRead, upInfo, upStored>>

\* lines 859-871: the body is wrapped in MaxBytesReader and
\* r.MultipartReader() is called; on an error 413 when the message says the
\* body is too large, else 400
UpMultipartReader(msg) ==
    /\ upc = "reader"
    /\ IF msg = Nil
       THEN upc' = "parts" /\ UNCHANGED upStatus
       ELSE /\ upc' = "done"
            /\ upStatus' = IF IsTooLarge(msg) THEN 413 ELSE 400
    /\ UNCHANGED <<upBody, upLimit, upIdx, upRead, upInfo, upStored>>

\* lines 875-882 and 905-910: mr.NextPart() reads on to the next boundary;
\* a read past the maximum is an error, answered with 400; at the closing
\* boundary the loop ends, with 400 when no file was uploaded and the
\* upload info otherwise
UpNextPart ==
    /\ upc = "parts"
    /\ IF ~CanRead(1)
       THEN /\ upStatus' = 400
            /\ upc' = "done"
            /\ UNCHANGED upRead
       ELSE /\ upRead' = upRead + 1
            /\ IF upIdx > Len(upBody)
               THEN /\ upStatus' = IF upInfo THEN 200 ELSE 400
                    /\ upc' = "done"
               ELSE /\ upc' = upBody[upIdx].name
                    /\ UNCHANGED upStatus
    /\ UNCHANGED <<upBody, upLimit, upIdx, upInfo, upStored>>

\* lines 884-888: the key part is read with io.ReadAll, whose error is
\* dropped
UpReadKey ==
    /\ upc = "key"
    /\ upRead' = IF CanRead(upBody[upIdx].sz)
                 THEN upRead + upBody[upIdx].sz ELSE upLimit
    /\ upIdx' = upIdx + 1
    /\ upc' = "parts"
    /\ UNCHANGED <<upBody, upLimit, upInfo, upStored, upStatus>>

\* lines 889-902: the file part is streamed to c.Upload; a read past the
\* maximum, or a failure of the storage, makes Upload return an error, which
\* is answered with 500; else the object is stored and the loop goes on
UpFile(ok) ==
    /\ upc = "file"
    /\ IF CanRead(upBody[upIdx].sz) /\ ok
       THEN /\ upRead' = upRead + upBody[upIdx].sz
            /\ upStored' = TRUE
            /\ upInfo' = TRUE
            /\ upIdx' = upIdx + 1
            /\ upc' = "parts"
            /\ UNCHANGED upStatus
       ELSE /\ upRead' = IF CanRead(upBody[upIdx].sz) THEN upRead ELSE upLimit
            /\ upStatus' = 500
            /\ upc' = "done"
            /\ UNCHANGED <<upStored, upInfo, upIdx>>
    /\ UNCHANGED <<upBody, upLimit>>

\* ------------------------------------------------------------------------
\* Tracing middleware and trace store
\* ------------------------------------------------------------------------
NoTrace == [id |-> Nil, status |-> 0, started |-> 0, ended |-> 0,
            duration |-> 0, respBytes |-> 0, events |-> <<>>]
NoResult == [found |-> FALSE]

\* requests are named in the order they arrive
Before(q, r) == q = "r1" /\ r = "r2"

TraceInit ==
    /\ tpc = [r \in Reqs |-> "new"]
    /\ trace = [r \in Reqs |-> NoTrace]
    /\ recCode = [r \in Reqs |-> 0]
    /\ recBytes = [r \in Reqs |-> 0]
    /\ evIdx = [r \in Reqs |-> 1]
    /\ tbuf = [i \in 0..(TraceCap - 1) |-> Nil]
    /\ tnextIdx = 0
    /\ dbRows = {}
    /\ dbEvents = {}
    /\ nevRows = 0
    /\ now = 0
    /\ finished = [r \in Reqs |-> NoTrace]
    /\ rowSaved = [r \in Reqs |-> FALSE]
    /\ restarted = FALSE
    /\ getOut = NoResult

tstoreVars == <<tbuf, tnextIdx>>
dbVars == <<dbRows, dbEvents, nevRows>>
recVars == <<recCode, recBytes>>
ghostVars == <<finished, rowSaved>>

\* time passes
ClockTick ==
    /\ now' = now + 1
    /\ UNCHANGED <<tpc, trace, recVars, evIdx, tstoreVars, dbVars, ghostVars,
                   restarted, getOut>>

\* addEvent, lines 752-756, for a request whose context carries its trace
WithEvent(t, name) ==
    [t EXCEPT !.events = Append(@, [time |-> now, name |-> name])]

\* router.go lines 47-67: the trace is made; the request.start addEvent runs
\* on the request before its context carries the trace, so traceFrom
\* returns nil and nothing is appended; the recorder starts at code 200.
\* Handlers touch only their own trace, so a later request is let in once
\* the earlier one's trace is in the ring: everything it does overlaps the
\* earlier one's persistence.
TBegin(r) ==
    /\ tpc[r] = "new"
    /\ \A q \in Reqs : Before(q, r) => tpc[q] \notin {"new", "handler", "finish"}
    /\ trace' = [trace EXCEPT ![r] = [NoTrace EXCEPT !.id = r, !.started = now]]
    /\ recCode' = [recCode EXCEPT ![r] = 200]
    /\ recBytes' = [recBytes EXCEPT ![r] = 0]
    /\ tpc' = [tpc EXCEPT ![r] = "handler"]
    /\ UNCHANGED <<evIdx, tstoreVars, dbVars, now, ghostVars, restarted, getOut>>

\* a handler calls addEvent (for instance object.copy.end)
TAddEvent(r) ==
    /\ tpc[r] = "handler"
    /\ trace' = [trace EXCEPT ![r] = WithEvent(@, "op")]
    /\ UNCHANGED <<tpc, recVars, evIdx, tstoreVars, dbVars, now, ghostVars,
                   restarted, getOut>>

\* respondError, lines 759-762: the error event, then http.Error writes the
\* status and the message through the recorder; the handler returns
TRespondError(r, code) ==
    /\ tpc[r] = "handler"
    /\ trace' = [trace EXCEPT ![r] = WithEvent(@, "error")]
    /\ recCode' = [recCode EXCEPT ![r] = code]
    /\ recBytes' = [recBytes EXCEPT ![r] = 1]
    /\ tpc' = [tpc EXCEPT ![r] = "finish"]
    /\ UNCHANGED <<evIdx, tstoreVars, dbVars, now, ghostVars, restarted, getOut>>

\* addEvent, lines 752-756, with the fields of the event: nothing happens
\* when the request's context carries no trace (traceFrom returns nil)
addEvent(t, name, fields) ==
    IF t = NoTrace THEN t
    ELSE [t EXCEPT !.events = Append(@, [time |-> now, name |-> name,
                                         fields |-> fields])]

\* a respondError that leaves the message out of the event
respondErrorCodeOnly(r, code, msg) ==
    /\ tpc[r] \in {"new", "handler"}
    /\ trace' = [trace EXCEPT ![r] =
                   addEvent(@, "error", [code |-> code, message |-> ""])]
    /\ recCode' = [recCode EXCEPT ![r] = code]
    /\ recBytes' = [recBytes EXCEPT ![r] = 1]
    /\ tpc' = [tpc EXCEPT ![r] = IF tpc[r] = "new" THEN "answered" ELSE "finish"]
    /\ UNCHANGED <<evIdx, tstoreVars, dbVars, now, ghostVars, restarted, getOut>>

\* respondError, lines 759-762, called on a request with a trace in its
\* context ("handler") or without one ("new"): addEvent with the code and
\* the message as fields, then http.Error writes the status code and the
\* message on w (recCode and recBytes stand for what w has been given)
respondError(r, code, msg) ==
    /\ tpc[r] \in {"new", "handler"}
    /\ trace' = [trace EXCEPT ![r] =
                   addEvent(@, "error", [code |-> code, message |-> msg])]
    /\ recCode' = [recCode EXCEPT ![r] = code]
    /\ recBytes' = [recBytes EXCEPT ![r] = 1]
    /\ tpc' = [tpc EXCEPT ![r] = IF tpc[r] = "new" THEN "answered" ELSE "finish"]
    /\ UNCHANGED <<evIdx, tstoreVars, dbVars, now, ghostVars, restarted, getOut>>

\* a handler returns after writing a body and no status of its own
THandlerOk(r) ==
    /\ tpc[r] = "handler"
    /\ recBytes' = [recBytes EXCEPT ![r] = 2]
    /\ tpc' = [tpc EXCEPT ![r] = "finish"]
    /\ UNCHANGED <<trace, recCode, evIdx, tstoreVars, dbVars, now, ghostVars,
                   restarted, getOut>>

\* a variant of TFinish that does not read the recorder: the status is 200
TFinishStatusOk(r) ==
    /\ tpc[r] = "finish"
    /\ LET t == [trace[r] EXCEPT !.status = 200,
                                 !.ended = now,
                                 !.duration = now - trace[r].started,
                                 !.respBytes = recBytes[r]]
       IN  /\ trace' = [trace EXCEPT ![r] = WithEvent(t, "request.end")]
           /\ finished' = [finished EXCEPT ![r] = [t EXCEPT !.events = <<>>]]
    /\ recCode' = [recCode EXCEPT ![r] = 0]
    /\ recBytes' = [recBytes EXCEPT ![r] = 0]
    /\ tbuf' = [tbuf EXCEPT ![tnextIdx] = r]
    /\ tnextIdx' = (tnextIdx + 1) % TraceCap
    /\ tpc' = [tpc EXCEPT ![r] = "save"]
    /\ UNCHANGED <<evIdx, dbVars, now, rowSaved, restarted, getOut>>

\* router.go lines 69-87: the terminal fields, the request.end event, and
\* traceStore.add (lines 678-683) of the finished trace; the recorder is
\* not used again
TFinish(r) ==
    /\ tpc[r] = "finish"
    /\ LET t == [trace[r] EXCEPT !.status = recCode[r],
                                 !.ended = now,
                                 !.duration = now - trace[r].started,
                                 !.respBytes = recBytes[r]]
       IN  /\ trace' = [trace EXCEPT ![r] = WithEvent(t, "request.end")]
           /\ finished' = [finished EXCEPT ![r] = [t EXCEPT !.events = <<>>]]
    /\ recCode' = [recCode EXCEPT ![r] = 0]
    /\ recBytes' = [recBytes EXCEPT ![r] = 0]
    /\ tbuf' = [tbuf EXCEPT ![tnextIdx] = r]
    /\ tnextIdx' = (tnextIdx + 1) % TraceCap
    /\ tpc' = [tpc EXCEPT ![r] = "save"]
    /\ UNCHANGED <<evIdx, dbVars, now, rowSaved, restarted, getOut>>

\* a row that loses the terminal fields
TraceRowNoTerminal(t) ==
    [id |-> t.id, status |-> 0, started |-> t.started,
     ended |-> 0, durationNs |-> 0, respBytes |-> 0]

\* persistTrace, lines 708-722: the row built from the trace
TraceRow(t) ==
    [id |-> t.id, status |-> t.status, started |-> t.started,
     ended |-> t.ended, durationNs |-> t.duration, respBytes |-> t.respBytes]

\* persistTrace, line 723: db.DB.Save(&row); its error is dropped
TSaveRow(r, ok) ==
    /\ tpc[r] = "save"
    /\ dbRows' = IF ok
                 THEN {x \in dbRows : x.id # trace[r].id}
                        \cup {TraceRow(trace[r])}
                 ELSE dbRows
    /\ rowSaved' = [rowSaved EXCEPT ![r] = ok]
    /\ evIdx' = [evIdx EXCEPT ![r] = 1]
    /\ tpc' = [tpc EXCEPT ![r] = "events"]
    /\ UNCHANGED <<trace, recVars, tstoreVars, dbEvents, nevRows, now,
                   finished, restarted, getOut>>

\* persistTrace, lines 725-728: one db.DB.Create per event, errors dropped;
\* after the last one the middleware is through (router.go lines 89-102)
TSaveEvent(r, ok) ==
    /\ tpc[r] = "events"
    /\ evIdx[r] <= Len(trace[r].events)
    /\ LET ev == trace[r].events[evIdx[r]] IN
         IF ok
         THEN /\ dbEvents' = dbEvents \cup
                    {[rowid |-> nevRows + 1, traceId |-> trace[r].id,
                      time |-> ev.time, name |-> ev.name]}
              /\ nevRows' = nevRows + 1
         ELSE UNCHANGED <<dbEvents, nevRows>>
    /\ IF evIdx[r] = Len(trace[r].events)
       THEN /\ evIdx' = [evIdx EXCEPT ![r] = 1]
            /\ tpc' = [tpc EXCEPT ![r] = "done"]
       ELSE /\ evIdx' = [evIdx EXCEPT ![r] = @ + 1]
            /\ UNCHANGED tpc
    /\ UNCHANGED <<trace, recVars, tstoreVars, dbRows, now, ghostVars,
                   restarted, getOut>>

\* the process stops and starts again: the ring and the requests in flight
\* are gone, the database stays
Restart ==
    /\ ~restarted
    /\ restarted' = TRUE
    /\ tbuf' = [i \in 0..(TraceCap - 1) |-> Nil]
    /\ tnextIdx' = 0
    /\ tpc' = [r \in Reqs |-> IF tpc[r] \in {"new", "done"} THEN tpc[r]
                              ELSE "lost"]
    /\ trace' = [r \in Reqs |-> NoTrace]
    /\ recCode' = [r \in Reqs |-> 0]
    /\ recBytes' = [r \in Reqs |-> 0]
    /\ evIdx' = [r \in Reqs |-> 1]
    /\ UNCHANGED <<dbVars, now, ghostVars, getOut>>

\* traceGet, line 796: Order("time asc") leaves the order of rows with
\* equal times to the database
TimeSorted(f, n) == \A i, j \in 1..n : i < j => f[i].time <= f[j].time

\* traceGet, lines 782-806: the row by id, its events by time, the Trace
\* built from them
TraceGet(id) ==
    /\ LET rows == {x \in dbRows : x.id = id}
           evs == {e \in dbEvents : e.traceId = id}
           n == Cardinality(evs)
       IN  IF rows = {}
           THEN getOut' = NoResult
           ELSE \E row \in rows :
                \E f \in [1..n -> evs] :
                   /\ \A i, j \in 1..n : i # j => f[i] # f[j]
                   /\ TimeSorted(f, n)
                   /\ getOut' =
                        [found |-> TRUE, id |-> row.id, status |-> row.status,
                         started |-> row.started, ended |-> row.ended,
                         duration |-> row.durationNs,
                         respBytes |-> row.respBytes,
                         events |-> [i \in 1..n |->
                                       [time |-> f[i].time, name |-> f[i].name]]]
    /\ UNCHANGED <<tpc, trace, recVars, evIdx, tstoreVars, dbVars, now,
                   ghostVars, restarted>>

\* the limit traceRecent puts on its query, line 768
TraceRecentLimit == 200

StartedDesc(f, n) == \A i, j \in 1..n : i < j => f[i].started >= f[j].started

\* traceRecent, lines 766-780: the `limit` parameter of the request is read
\* and not used (lines 769-771); the rows come from the database by
\* Order("started desc").Limit(limit) with limit = 200, rows with equal
\* started in the order the database picks
traceRecent(n) ==
    /\ LET c == Cardinality(dbRows)
           k == IF c < TraceRecentLimit THEN c ELSE TraceRecentLimit
       IN  \E f \in [1..c -> dbRows] :
              /\ \A i, j \in 1..c : i # j => f[i] # f[j]
              /\ StartedDesc(f, c)
              /\ trOut' = [done |-> TRUE, n |-> n, ids |-> [i \in 1..k |-> f[i].id]]
    /\ UNCHANGED traceVars

MiddlewareStep(r) ==
    \/ TBegin(r)
    \/ \E code \in Codes : TRespondError(r, code)
    \/ THandlerOk(r)
    \/ TFinish(r)
    \/ \E ok \in BOOLEAN : TSaveRow(r, ok)
    \/ \E ok \in BOOLEAN : TSaveEvent(r, ok)

\* ------------------------------------------------------------------------
\* Aggregation: obsSummary
\* ------------------------------------------------------------------------
NoView == [statusCounts |-> [k \in {"2xx", "3xx", "4xx", "5xx"} |-> 0],
           perMinute |-> <<>>, topSlow |-> <<>>, topErrors |-> <<>>,
           recentLatencies |-> <<>>]

AggInit ==
    /\ lats = <<>>
    /\ pctDone = FALSE
    /\ pctP = 0
    /\ pctOut = 0
    /\ aggDone = FALSE
    /\ aggWin = <<>>
    /\ aggNow = 0
    /\ aggOut = NoView
    /\ aggStatus = 0
    /\ aggReadOk = TRUE

\* percentile, lines 344-352: one pass of the insertion sort puts x behind
\* the last element of the sorted prefix that is not greater than x
RECURSIVE InsertSorted(_, _)
InsertSorted(vv, x) ==
    IF vv = <<>> \/ ~(vv[Len(vv)] > x)
    THEN Append(vv, x)
    ELSE Append(InsertSorted(SubSeq(vv, 1, Len(vv) - 1), x), vv[Len(vv)])

\* percentile, lines 342-352: the copy of vals, sorted ascending
RECURSIVE SortCopy(_)
SortCopy(vals) ==
    IF vals = <<>> THEN <<>>
    ELSE InsertSorted(SortCopy(SubSeq(vals, 1, Len(vals) - 1)), vals[Len(vals)])

\* Go's int(x) of a quotient: truncation towards zero
TruncDiv(a, b) == IF a >= 0 THEN a \div b ELSE -((-a) \div b)

\* an index that rounds the rank up
PctIndexUp(p, n) ==
    LET idx == TruncDiv(p * (n - 1) + 99, 100)
    IN  IF idx < 0 THEN 0 ELSE IF idx >= n THEN n - 1 ELSE idx

\* percentile, lines 353-359: idx := int(p / 100.0 * float64(len(vv)-1)),
\* clamped to the slice (0-based)
PctIndex(p, n) ==
    LET idx == TruncDiv(p * (n - 1), 100)
    IN  IF idx < 0 THEN 0 ELSE IF idx >= n THEN n - 1 ELSE idx

\* percentile, lines 338-360
percentile(vals, p) ==
    IF Len(vals) = 0 THEN 0
    ELSE SortCopy(vals)[PctIndex(p, Len(vals)) + 1]

\* obsSummary, lines 311-314: a path's sample grows by one latency
LatsAppend(ms) ==
    /\ ~pctDone
    /\ lats' = Append(lats, ms)
    /\ UNCHANGED <<pctDone, pctP, pctOut, sumVars>>

\* a call of percentile on the sample
PercentileCall(p) ==
    /\ ~pctDone
    /\ pctDone' = TRUE
    /\ pctP' = p
    /\ pctOut' = percentile(lats, p)
    /\ UNCHANGED <<lats, sumVars>>

\* time.Truncate(time.Minute) of a clock reading in seconds
TruncMinute(t) == t - (t % 60)

\* lines 289-297: the status class of a trace
\* a classification whose limits are off by one
StatusKeyAbove(st) ==
    IF st > 500 THEN "5xx"
    ELSE IF st > 400 THEN "4xx"
    ELSE IF st > 300 THEN "3xx"
    ELSE "2xx"

\* lines 288-296: the class of a status
StatusKey(st) ==
    IF st >= 500 THEN "5xx"
    ELSE IF st >= 400 THEN "4xx"
    ELSE IF st >= 300 THEN "3xx"
    ELSE "2xx"

\* lines 263-269: the keys of the buckets map
BucketKeys(at) == {TruncMinute(at - 60 * i) : i \in 0..(NumBuckets - 1)}

CountIf(win, P(_)) == Cardinality({i \in 1..Len(win) : P(win[i])})

\* lines 256 and 289-297, over the whole window
StatusCounts(win) ==
    [k \in {"2xx", "3xx", "4xx", "5xx"} |->
        CountIf(win, LAMBDA t : StatusKey(t.status) = k)]

\* lines 299-305, the loop over the window seen from the bucket b of one
\* key: the trace win[i] counts in it when its start minute is the key
RECURSIVE BucketLoop(_, _, _)
BucketLoop(win, i, b) ==
    IF i > Len(win) THEN b
    ELSE BucketLoop(win, i + 1,
            IF TruncMinute(win[i].started) = b.k
            THEN [b EXCEPT !.count = @ + 1,
                           !.errors = IF win[i].status >= 400 THEN @ + 1 ELSE @]
            ELSE b)

\* a bucket that counts only the statuses from 500 as errors
BucketAtServerErrors(win, m) ==
    LET in == {i \in 1..Len(win) : TruncMinute(win[i].started) = m}
    IN  [k |-> m,
         count  |-> Cardinality(in),
         errors |-> Cardinality({i \in in : win[i].status >= 500})]

\* lines 263-269 and 299-305: the bucket of minute m, seeded with zeros, after
\* the loop over the window
BucketAt(win, m) ==
    BucketLoop(win, 1, [k |-> m, count |-> 0, errors |-> 0])

Buckets(win, at) == [m \in BucketKeys(at) |-> BucketAt(win, m)]

\* lines 280-285: the latency in milliseconds, never negative
LatMs(t) == IF t.ms < 0 THEN 0 ELSE t.ms

RECURSIVE SumSeq(_)
SumSeq(q) == IF q = <<>> THEN 0 ELSE q[1] + SumSeq(Tail(q))

\* the rows of one path, in window order
RowsOf(win, path) == SelectSeq(win, LAMBDA t : t.path = path)

\* lines 319-329: LastMsg after the loop has seen the error traces errs of a
\* path: every lookup that finds an event with a message overwrites it
LastMsg(errs) ==
    LET withMsg == SelectSeq(errs, LAMBDA t : t.ev \in Messages)
    IN  IF withMsg = <<>> THEN "" ELSE withMsg[Len(withMsg)].ev

\* lines 306-335: the aggregate of one path
PAgg(win, path) ==
    LET rows == RowsOf(win, path)
        ms == [i \in 1..Len(rows) |-> LatMs(rows[i])]
        errs == SelectSeq(rows, LAMBDA t : t.status >= 400)
    IN  [count |-> Len(rows),
         sumMs |-> SumSeq(ms),
         lats |-> SubSeq(ms, 1, IF Len(ms) < LatsCap THEN Len(ms) ELSE LatsCap),
         errs |-> Len(errs),
         lastMsg |-> LastMsg(errs),
         lastStatus |-> IF errs = <<>> THEN 0 ELSE errs[Len(errs)].status,
         sampleId |-> IF errs = <<>> THEN 0 ELSE errs[1].id]

\* sortBy, lines 380-389 (or the loop of lines 410-418 when desc is FALSE):
\* the scan for the item to put at position i
RECURSIVE ScanBest(_, _, _, _)
ScanBest(arr, j, mi, desc) ==
    IF j > Len(arr) THEN mi
    ELSE ScanBest(arr, j + 1,
                  IF (desc /\ arr[j].k > arr[mi].k) \/ (~desc /\ arr[j].k < arr[mi].k)
                  THEN j ELSE mi,
                  desc)

Swap(arr, i, j) == [arr EXCEPT ![i] = arr[j], ![j] = arr[i]]

\* the selection sort from position i on
RECURSIVE SortFrom(_, _, _)
SortFrom(arr, i, desc) ==
    IF i > Len(arr) THEN arr
    ELSE SortFrom(Swap(arr, i, ScanBest(arr, i + 1, i, desc)), i + 1, desc)

sortBy(arr, desc) == SortFrom(arr, 1, desc)

Cut(arr, n) == IF Len(arr) > n THEN SubSeq(arr, 1, n) ELSE arr

\* the paths of the window: the keys of the paths map
PathsOf(win) == {win[i].path : i \in 1..Len(win)}

\* the orders in which a range over a map of these keys can visit them
Orders(keys) ==
    {f \in [1..Cardinality(keys) -> keys] :
        \A i, j \in 1..Cardinality(keys) : i # j => f[i] # f[j]}

\* a slow list that takes every path, whatever its count
TopSlowAnyCount(win, pord) ==
    LET items == [i \in 1..Len(pord) |->
                    LET ag == PAgg(win, pord[i])
                    IN  [k |-> percentile(ag.lats, 95), path |-> pord[i],
                         count |-> ag.count, sumMs |-> ag.sumMs]]
    IN  Cut(sortBy(items, TRUE), TopSlowCut)

\* lines 364-375 and 391-394: the slow list from the paths map visited in
\* the order pord; k is the sort key, p95Ms
TopSlow(win, pord) ==
    LET items == [i \in 1..Len(pord) |->
                    LET ag == PAgg(win, pord[i])
                    IN  [k |-> percentile(ag.lats, 95), path |-> pord[i],
                         count |-> ag.count, sumMs |-> ag.sumMs]]
        listed == SelectSeq(items, LAMBDA it : it.count >= MinSlow)
    IN  Cut(sortBy(listed, TRUE), TopSlowCut)

\* an error list that takes every path, with or without errors
TopErrorsAnyPath(win, pord) ==
    LET items == [i \in 1..Len(pord) |->
                    LET ag == PAgg(win, pord[i])
                    IN  [k |-> ag.errs, path |-> pord[i],
                         lastMessage |-> ag.lastMsg,
                         lastStatus |-> ag.lastStatus,
                         sampleTraceId |-> ag.sampleId]]
    IN  Cut(sortBy(items, TRUE), TopErrorsCut)

\* lines 364-378 and 395-404: the error list; k is the sort key, count
TopErrors(win, pord) ==
    LET items == [i \in 1..Len(pord) |->
                    LET ag == PAgg(win, pord[i])
                    IN  [k |-> ag.errs, path |-> pord[i],
                         lastMessage |-> ag.lastMsg,
                         lastStatus |-> ag.lastStatus,
                         sampleTraceId |-> ag.sampleId]]
        listed == SelectSeq(items, LAMBDA it : it.k > 0)
    IN  Cut(sortBy(listed, TRUE), TopErrorsCut)

\* the buckets in the order the range over the map visits them: from the
\* start-th one the loop of lines 263-269 made, forwards or backwards
BucketVisit(win, at, start, back) ==
    [i \in 1..NumBuckets |->
        LET r == IF back THEN (start - i) % NumBuckets
                         ELSE (start + i) % NumBuckets
        IN  BucketAt(win, TruncMinute(at - 60 * r))]

\* a per-minute list left in the order of the visit
PerMinuteUnsorted(win, at, start, back) ==
    BucketVisit(win, at, start, back)

\* lines 405-418: the buckets as visited, then sorted ascending by ts
PerMinute(win, at, start, back) ==
    sortBy(BucketVisit(win, at, start, back), FALSE)

\* lines 253-254: the query hands over one more row; the rows come newest
\* start first and the id is the primary key.  ev is what the query of
\* line 321 gives for the trace: "fail" when the query fails, "none" when
\* the trace has no error event or the event has no message, or else the
\* message of the error event with the latest time
AggRowReadEv(path, st, started, ms, ev) ==
    /\ ~aggDone
    /\ Len(aggWin) > 0 => aggWin[Len(aggWin)].started >= started
    /\ aggWin' = Append(aggWin, [id |-> Len(aggWin) + 1, path |-> path,
                                 status |-> st, started |-> started, ms |-> ms,
                                 ev |-> ev])
    /\ UNCHANGED <<pctVars, aggDone, aggNow, aggOut, aggStatus, aggReadOk>>

\* a row of a trace without an error event
AggRowRead(path, st, started, ms) == AggRowReadEv(path, st, started, ms, "none")

\* a handler that answers 500 and no view when the query of line 254 fails
ObsSummaryReadChecked(at, readOk, pord, start, back) ==
    /\ ~aggDone
    /\ aggDone' = TRUE
    /\ aggNow' = at
    /\ aggReadOk' = readOk
    /\ aggStatus' = IF readOk THEN 200 ELSE 500
    /\ LET trs == IF readOk THEN aggWin ELSE <<>> IN
         /\ aggWin' = trs
         /\ pord \in Orders(PathsOf(trs))
         /\ aggOut' = IF ~readOk THEN NoView
                       ELSE [statusCounts |-> StatusCounts(trs),
                             perMinute |-> PerMinute(trs, at, start, back),
                             topSlow |-> TopSlow(trs, pord),
                             topErrors |-> TopErrors(trs, pord),
                             recentLatencies |-> [i \in 1..Len(trs) |-> LatMs(trs[i])]]
    /\ UNCHANGED pctVars

\* obsSummary, lines 250-426: the window read (an error of the read leaves
\* trs empty), the aggregation, the answer; no status is set, so the first
\* write of the encoder sends 200
ObsSummary(at, readOk, pord, start, back) ==
    /\ ~aggDone
    /\ aggDone' = TRUE
    /\ aggNow' = at
    /\ aggReadOk' = readOk
    /\ aggStatus' = 200
    /\ LET trs == IF readOk THEN aggWin ELSE <<>> IN
         /\ aggWin' = trs
         /\ pord \in Orders(PathsOf(trs))
         /\ aggOut' = [statusCounts |-> StatusCounts(trs),
                       perMinute |-> PerMinute(trs, at, start, back),
                       topSlow |-> TopSlow(trs, pord),
                       topErrors |-> TopErrors(trs, pord),
                       recentLatencies |-> [i \in 1..Len(trs) |-> LatMs(trs[i])]]
    /\ UNCHANGED pctVars

\* ------------------------------------------------------------------------
\* Specifications
\* ------------------------------------------------------------------------
\* the process after start-up: the log store, no transfer, the trace store
Init ==
    /\ LogInit
    /\ XferInit
    /\ TraceInit
    /\ AggInit
    /\ SnapInit
    /\ HookInit
    /\ ApiInit
    /\ UploadInit
    /\ FeedInit

\* Concurrent writers and readers of the ring, with or without a subscriber
\* that came first.
RingNext ==
    \/ \E w \in Writers, lvl \in {"debug", "info", "fatal"} :
          ncalls < MaxCalls /\ WriteCall(w, lvl)
    \/ \E w \in Writers : WriterRun(w)
    \/ \E n \in 0..(RingCap + 1) : nctl < MaxCtl /\ RecentCall(n)
    \/ nctl = 0 /\ Subscribe("c1")

SpecRing ==
    Init
      /\ [][RingNext /\ UNCHANGED <<xferVars, traceVars, aggVars, snapVars, hookVars, apiVars, upVars, feedVars>>]_vars

\* Concurrent writers, subscribers that come, read and go.
SubNext ==
    \/ \E w \in Writers, lvl \in {"debug", "info", "fatal"} :
          ncalls < MaxSubCalls /\ WriteCall(w, lvl)
    \/ \E w \in Writers : WriterRun(w)
    \/ \E ch \in Chans : nctl < MaxCtl /\ Subscribe(ch)
    \/ \E ch \in Chans : nctl < MaxCtl /\ Cancel(ch)
    \/ \E ch \in Chans : Receive(ch)

SpecSub ==
    Init
      /\ [][SubNext /\ UNCHANGED <<xferVars, traceVars, aggVars, snapVars, hookVars, apiVars, upVars, feedVars>>]_vars

\* the scheduler runs every goroutine that can take a step
SpecSubFair ==
    SpecSub
      /\ \A w \in Writers :
            WF_vars(WriterRun(w) /\ UNCHANGED <<xferVars, traceVars, aggVars, snapVars, hookVars, apiVars, upVars, feedVars>>)

\* Concurrent writers and one subscriber whose reader keeps what it gets.
FeedNext ==
    \/ /\ \/ \E w \in Writers : ncalls < MaxCalls /\ WriteCall(w, "info")
          \/ nctl < 1 /\ Subscribe("c1")
       /\ UNCHANGED feedVars
    \/ \E w \in Writers : WriterRunFeed(w)
    \/ ReceiveKeep("c1")

SpecFeed ==
    Init
      /\ [][FeedNext /\ UNCHANGED <<xferVars, traceVars, aggVars, snapVars, hookVars, apiVars, upVars>>]_vars

\* One logger, with the threshold, the sink and the subscribers changing.
LevelNext ==
    \/ \E lvl \in Levels : ncalls < MaxSubCalls /\ WriteCall("w1", lvl)
    \/ WriterRun("w1")
    \/ \E lvl \in LevelInputs : nctl < MaxCtl /\ SetLevel(lvl)
    \/ \E fn \in Sinks \cup {Nil} : nctl < MaxCtl /\ SetPersist(fn)
    \/ \E ch \in Chans : nctl < MaxCtl /\ Subscribe(ch)
    \/ \E ch \in Chans : nctl < MaxCtl /\ Cancel(ch)
    \/ \E ch \in Chans : Receive(ch)

SpecLevel ==
    Init
      /\ [][LevelNext /\ UNCHANGED <<xferVars, traceVars, aggVars, snapVars, hookVars, apiVars, upVars, feedVars>>]_vars

\* One logger whose threshold is set through the level endpoint.
ApiNext ==
    \/ /\ \/ \E lvl \in Levels : ncalls < MaxSubCalls /\ WriteCall("w1", lvl)
          \/ WriterRun("w1")
          \/ nctl < MaxCtl /\ Subscribe("c1")
          \/ Receive("c1")
       /\ UNCHANGED apiVars
    \/ /\ \E lvl \in LevelInputs \cup {""} : nctl < MaxCtl /\ logsSetLevel(lvl)
       /\ UNCHANGED trOut

SpecApi ==
    Init
      /\ [][ApiNext /\ UNCHANGED <<xferVars, traceVars, aggVars, snapVars, hookVars, upVars, feedVars>>]_vars

\* One logger whose accepted entries go to the database sink.
SinkNext ==
    \/ /\ \/ \E lvl \in {"info", "fatal"} :
                ncalls < MaxSinkCalls /\ WriteCall("w1", lvl)
          \/ \E w \in Writers : WriterRun(w)
          \/ \E lvl \in Levels : nctl < MaxCtl /\ SetLevel(lvl)
          \/ \E fn \in Sinks \cup {Nil} : nctl < MaxCtl /\ SetPersist(fn)
          \/ nctl < MaxCtl /\ Subscribe("c1")
          \/ Receive("c1")
       /\ UNCHANGED hookVars
    \/ \E c \in sinkCalls : SinkOk(c)
    \/ \E c \in sinkCalls : SinkEncodeFail(c)
    \/ \E c \in sinkCalls : ncalls < MaxSinkCalls /\ SinkDbFail(c)

SpecSink ==
    Init
      /\ [][SinkNext /\ UNCHANGED <<xferVars, traceVars, aggVars, snapVars, apiVars, upVars, feedVars>>]_vars

\* One copy or move request, its reporter, the ticker and the client.
XferNext ==
    \/ \E mode \in {"copy", "move"}, sz \in 0..MaxObj : HRequest(mode, sz)
    \/ HandlerStep
    \/ ReporterStep
    \/ nticks < MaxTicks /\ Tick
    \/ ClientCancel

SpecXfer ==
    Init
      /\ [][XferNext /\ UNCHANGED <<logVars, traceVars, aggVars, snapVars, hookVars, apiVars, upVars, feedVars>>]_vars

\* every goroutine that can run does run; a select that is ready to leave
\* again and again does leave
SpecXferFair ==
    /\ SpecXfer
    /\ WF_vars(HandlerStep /\ UNCHANGED <<logVars, traceVars, aggVars, snapVars, hookVars, apiVars, upVars, feedVars>>)
    /\ WF_vars((RWriteBody \/ RWriteNl) /\ UNCHANGED <<logVars, traceVars, aggVars, snapVars, hookVars, apiVars, upVars, feedVars>>)
    /\ SF_vars(ReporterExit /\ UNCHANGED <<logVars, traceVars, aggVars, snapVars, hookVars, apiVars, upVars, feedVars>>)

\* Requests through the tracing middleware, the clock, one restart, and
\* behaviours followed up to the first read that finds a trace.
TraceNext ==
    /\ ~getOut.found
    /\ \/ \E r \in Reqs : MiddlewareStep(r)
       \/ \E r \in Reqs : Len(trace[r].events) < MaxEvents /\ TAddEvent(r)
       \/ now < MaxClock /\ ClockTick
       \/ Restart
       \/ \E id \in Reqs : TraceGet(id)

SpecTrace ==
    Init
      /\ [][TraceNext /\ UNCHANGED <<logVars, xferVars, aggVars, snapVars, hookVars, apiVars, upVars, feedVars>>]_vars

\* Requests through the tracing middleware and the clock, followed up to
\* the first read of the recent traces.
TraceRecentNext ==
    /\ ~trOut.done
    /\ \/ /\ \/ \E r \in Reqs : MiddlewareStep(r)
             \/ now < MaxClock /\ ClockTick
          /\ UNCHANGED trOut
       \/ \E n \in 1..(TraceCap + 1) : traceRecent(n)

SpecTraceRecent ==
    Init
      /\ [][TraceRecentNext /\ UNCHANGED <<logVars, xferVars, aggVars, snapVars, hookVars, lvlOut, upVars, feedVars>>]_vars

\* Requests with a trace in their context (after TBegin) and without one,
\* events appended by handlers, the clock, and calls of respondError.
RespondNext ==
    \/ TBegin("r1")
    \/ \E r \in Reqs : Len(trace[r].events) < MaxEvents + 1 /\ TAddEvent(r)
    \/ now < MaxClock /\ ClockTick
    \/ \E r \in Reqs, code \in RespondCodes, msg \in Messages :
          respondError(r, code, msg)

SpecRespond ==
    Init
      /\ [][RespondNext /\ UNCHANGED <<logVars, xferVars, aggVars, snapVars, hookVars, apiVars, upVars, feedVars>>]_vars

\* One upload request, with or without a configured maximum.
UploadNext ==
    \/ \E body \in UploadBodies, limit \in {0, MaxUpload} : UpRequest(body, limit)
    \/ \E res \in {"ok", "badid", "nobucket", "noprovider"} : UpCheck(res)
    \/ \E msg \in MultipartReaderErrs \cup {Nil} : UpMultipartReader(msg)
    \/ UpNextPart
    \/ UpReadKey
    \/ \E ok \in BOOLEAN : UpFile(ok)

SpecUpload ==
    Init
      /\ [][UploadNext /\ UNCHANGED <<logVars, xferVars, traceVars, aggVars, snapVars, hookVars, apiVars, feedVars>>]_vars

\* Concurrent writers and one Recent call that walks the ring slot by slot.
SnapNext ==
    \/ /\ \/ \E w \in Writers, lvl \in {"debug", "info", "fatal"} :
                ncalls < MaxCalls /\ WriteCall(w, lvl)
          \/ \E w \in Writers : WriterRun(w)
       /\ UNCHANGED snapVars
    \/ \E n \in 0..(RingCap + 1) : RecentLock(n)
    \/ RecentIter
    \/ RecentUnlock

SpecSnap ==
    Init /\ [][SnapNext /\ UNCHANGED <<xferVars, traceVars, aggVars, hookVars, apiVars, upVars, feedVars>>]_vars

\* A latency sample is built and a percentile of it is taken.
PctNext ==
    \/ \E ms \in Millis : Len(lats) < MaxSample /\ LatsAppend(ms)
    \/ \E p \in Ranks : PercentileCall(p)

\* The query result row by row, then one call of obsSummary on it.
AggNext ==
    \/ \E path \in Paths, st \in AggStatuses, started \in StartChoices,
          ms \in AggMillis :
          Len(aggWin) < MaxWin /\ AggRowRead(path, st, started, ms)
    \/ \E at \in NowChoices, readOk \in BOOLEAN, v \in BucketVisits :
          \E pord \in Orders(PathsOf(IF readOk THEN aggWin ELSE <<>>)) :
             ObsSummary(at, readOk, pord, v[1], v[2])

SpecAgg ==
    Init /\ [][AggNext /\ UNCHANGED <<logVars, xferVars, traceVars, snapVars, hookVars, apiVars, upVars, feedVars>>]_vars

\* Windows of one path with statuses of every class, and one call of
\* obsSummary.
HistNext ==
    \/ \E st \in HistStatuses :
          Len(aggWin) < MaxWin /\ AggRowRead("/a", st, 1030, 10)
    \/ \E readOk \in BOOLEAN :
          \E pord \in Orders(PathsOf(IF readOk THEN aggWin ELSE <<>>)) :
             ObsSummary(1030, readOk, pord, 0, FALSE)

SpecHist ==
    Init /\ [][HistNext /\ UNCHANGED <<logVars, xferVars, traceVars, snapVars, hookVars, apiVars, upVars, feedVars>>]_vars

\* Windows of up to TopSlowCut + 2 paths, the rows of a path together and
\* with one latency: the first path has MinSlow - 1 or MinSlow rows, the
\* others MinSlow; then one call of obsSummary, the paths map visited in
\* one of two orders.
SlowPathNames == <<"/p1", "/p2", "/p3", "/p4", "/p5", "/p6", "/p7", "/p8", "/p9">>
SlowMillis == {10, 20, 30}

PathNo(path) == CHOOSE i \in 1..Len(SlowPathNames) : SlowPathNames[i] = path

RowFits(path, ms) ==
    IF aggWin = <<>>
    THEN path = SlowPathNames[1]
    ELSE LET last == aggWin[Len(aggWin)]
             cnt == Len(RowsOf(aggWin, last.path))
             no == PathNo(last.path)
         IN  \/ path = last.path /\ ms = last.ms /\ cnt < MinSlow
             \/ /\ no < TopSlowCut + 2
                /\ path = SlowPathNames[no + 1]
                /\ cnt >= (IF no = 1 THEN MinSlow - 1 ELSE MinSlow)

SlowOrders(keys) ==
    LET n == Cardinality(keys)
    IN  {[i \in 1..n |-> SlowPathNames[i]], [i \in 1..n |-> SlowPathNames[n + 1 - i]]}

SlowNext ==
    \/ \E path \in {SlowPathNames[i] : i \in 1..(TopSlowCut + 2)}, ms \in SlowMillis :
          RowFits(path, ms) /\ AggRowRead(path, 200, 1030, ms)
    \/ \E pord \in SlowOrders(PathsOf(aggWin)) :
          ObsSummary(1030, TRUE, pord, 0, FALSE)

SpecSlow ==
    Init /\ [][SlowNext /\ UNCHANGED <<logVars, xferVars, traceVars, snapVars, hookVars, apiVars, upVars, feedVars>>]_vars

\* Windows of up to TopErrorsCut + 1 paths, the rows of a path together: a
\* path has one trace that succeeded, or one that failed, or two that
\* failed; then one call of obsSummary, the paths map visited in one of two
\* orders.
ErrRowFits(path, st) ==
    IF aggWin = <<>>
    THEN path = SlowPathNames[1] /\ st < 500
    ELSE LET last == aggWin[Len(aggWin)]
             cnt == Len(RowsOf(aggWin, last.path))
             no == PathNo(last.path)
         IN  \/ path = last.path /\ cnt < 2 /\ last.status >= 400 /\ st = 500
             \/ /\ no < TopErrorsCut + 1
                /\ path = SlowPathNames[no + 1]
                /\ st < 500

ErrNext ==
    \/ \E path \in {SlowPathNames[i] : i \in 1..(TopErrorsCut + 1)},
          st \in AggStatuses :
          ErrRowFits(path, st) /\ AggRowRead(path, st, 1030, 10)
    \/ \E pord \in SlowOrders(PathsOf(aggWin)) :
          ObsSummary(1030, TRUE, pord, 0, FALSE)

SpecErr ==
    Init /\ [][ErrNext /\ UNCHANGED <<logVars, xferVars, traceVars, snapVars, hookVars, apiVars, upVars, feedVars>>]_vars

\* Windows of traces with their error events, and one call of obsSummary.
AggEvNext ==
    \/ \E path \in Paths, st \in AggStatuses, started \in {960, 1030},
          ev \in EvOutcomes :
          /\ Len(aggWin) < MaxWin
          /\ st < 400 => ev = "none"
          /\ AggRowReadEv(path, st, started, 10, ev)
    \/ \E readOk \in BOOLEAN :
          \E pord \in Orders(PathsOf(IF readOk THEN aggWin ELSE <<>>)) :
             ObsSummary(1030, readOk, pord, 0, FALSE)

SpecAggEv ==
    Init /\ [][AggEvNext /\ UNCHANGED <<logVars, xferVars, traceVars, snapVars, hookVars, apiVars, upVars, feedVars>>]_vars

SpecPct ==
    Init /\ [][PctNext /\ UNCHANGED <<logVars, xferVars, traceVars, snapVars, hookVars, apiVars, upVars, feedVars>>]_vars

\* ------------------------------------------------------------------------
\* Properties of the event log store
\* ------------------------------------------------------------------------
Min(a, b) == IF a < b THEN a ELSE b

\* the m newest entries out of k stored ones, newest first, by store order
Newest(k, m) == [j \in 1..m |-> k - j + 1]

SeqsOf(out) == [j \in 1..Len(out) |-> out[j].seq]

\* C1 (as amended): a Recent(n) call with n >= 1 made after k stores returns
\* the min(n, k, RingCap) most recently stored entries, newest first (so
\* Recent(RingCap) after more than RingCap stores returns exactly RingCap
\* entries); a call with n <= 0 returns all min(k, RingCap) entries held,
\* newest first.
C1_BoundedHistory ==
    [][\A n \in 0..(RingCap + 1) : RecentCall(n) =>
         LET k == nstored
             m == IF n >= 1 THEN Min(n, Min(k, RingCap)) ELSE Min(k, RingCap)
         IN  SeqsOf(recentOut') = Newest(k, m)]_vars

\* C1 witness: Recent(RingCap) was called after the ring had wrapped
C1_Witness ==
    /\ recentArg = RingCap
    /\ Len(recentOut) = RingCap
    /\ recentOut[1].seq = RingCap + 1

\* C1 as originally stated: Recent(n) after k <= RingCap stores returns
\* min(n, k) entries, for every n
C1_Original ==
    [][\A n \in 0..(RingCap + 1) : RecentCall(n) =>
         /\ (nstored > RingCap /\ n = RingCap) =>
               SeqsOf(recentOut') = Newest(nstored, RingCap)
         /\ nstored <= RingCap =>
               SeqsOf(recentOut') = Newest(nstored, Min(n, nstored))]_vars

\* C2: a write below the threshold returns at once and changes neither the
\* ring nor any subscriber queue nor the set of sink invocations; a write at
\* or above the threshold goes on to appendBuf. The threshold compared is the
\* one in force when the write starts, i.e. the last one SetLevel stored.
C2_LevelFilter ==
    [][\A lvl \in Levels : WriteCall("w1", lvl) =>
         IF order(lvl) < order(logLevel)
         THEN /\ UNCHANGED <<recent, nextIdx, nstored, chq, sinkCalls>>
              /\ wpc'["w1"] \in {"idle", "exit"}
         ELSE wpc'["w1"] = "append"]_vars

\* C2 witness: after SetLevel raised the threshold to error, an info write
\* returned without an entry, with a subscriber and a sink registered
C2_Witness ==
    /\ logLevel = "error"
    /\ wpc["w1"] = "idle"
    /\ ncalls >= 1
    /\ went["w1"] = [seq |-> 0, level |-> "info"]
    /\ subscribers # {}
    /\ persistFn # Nil
    /\ nstored = 0

InRing(e) == \E i \in 0..(RingCap - 1) : recent[i] = e

\* C3: every write call completes (returns, or ends the process in Fatal),
\* whatever the subscribers do, and from appendBuf on its entry is in the
\* ring as long as fewer than RingCap later entries were stored.
C3_WriteNeverBlocks ==
    /\ [](\A w \in Writers :
            (wpc[w] \in {"rlock", "range", "send", "persist"}
               /\ went[w].seq > nstored - RingCap) => InRing(went[w]))
    /\ \A w \in Writers : (wpc[w] # "idle") ~> (wpc[w] = "idle" \/ exited)

\* C3 witness: a write has returned whose entry a full channel did not take
C3_Witness ==
    \E w \in Writers, ch \in Chans :
        /\ ch \in subscribers
        /\ Len(chq[ch]) = SubCap
        /\ wpc[w] = "idle"
        /\ went[w].seq = SubCap + 1
        /\ InRing(went[w])
        /\ \A j \in 1..Len(chq[ch]) : chq[ch][j].seq < went[w].seq

\* C4: no send is ever attempted on a closed channel, and once a channel is
\* closed (cancel has run) its queue takes no further entry.
C4_NoDeliveryAfterCancel ==
    /\ [](~sendOnClosed)
    /\ [][\A ch \in Chans :
            closed[ch] => Len(chq'[ch]) <= Len(chq[ch])]_vars

\* C4 witness: a channel that got an entry was cancelled, and a later write
\* has finished its broadcast without touching it
C4_Witness ==
    \E ch \in Chans, w \in Writers :
        /\ closed[ch]
        /\ Len(chq[ch]) = 1
        /\ chq[ch][1].seq = 1
        /\ wpc[w] = "persist"
        /\ went[w].seq = 2

\* C17: when a subscriber's queue is full, the send of a newly accepted
\* entry to it drops that entry: the queue keeps what it held, in order;
\* the send to a queue with room puts the entry at its tail; no send
\* touches another queue, and the loop goes on to the remaining
\* subscribers and ends only when it has been to all of them.
C17_DropNewest ==
    [][\A w \in Writers :
          /\ BroadcastSend(w) =>
                LET ch == wcur[w] IN
                  /\ Len(chq[ch]) = SubCap => chq'[ch] = chq[ch]
                  /\ Len(chq[ch]) < SubCap => chq'[ch] = Append(chq[ch], went[w])
                  /\ \A o \in Chans \ {ch} : chq'[o] = chq[o]
                  /\ wtodo'[w] = wtodo[w]
                  /\ wpc'[w] = "range"
          /\ (wpc[w] = "range" /\ wpc'[w] # "range") =>
                \/ wpc'[w] = "send" /\ wcur'[w] \in wtodo[w]
                                    /\ wtodo'[w] = wtodo[w] \ {wcur'[w]}
                \/ wpc'[w] = "persist" /\ wtodo[w] = {}]_vars

\* C17 witness: a write found the queue of c1 full and left it as it was,
\* and c2, which had room, has the new entry
C17_Witness ==
    \E w \in Writers :
        /\ wpc[w] = "persist"
        /\ went[w].seq = SubCap + 1
        /\ {"c1", "c2"} \subseteq subscribers
        /\ Len(chq["c1"]) = SubCap
        /\ chq["c1"][1].seq = 1
        /\ Len(chq["c2"]) > 0
        /\ chq["c2"][Len(chq["c2"])] = went[w]

C34_FeedInRingOrder ==
    \A ch \in Chans :
       ~dropped[ch] =>
          \A i, j \in 1..Len(got[ch]) : i < j => got[ch][i] < got[ch][j]

\* C16: a Recent(n) call made while writers store returns a snapshot: its
\* result is, newest first, exactly the most recent entries of the ring as
\* it stood at one instant between the call and the return (after k stores,
\* for one k), with no entry twice, none left out and no half-written slot.
C16_Snapshot ==
    rdpc = "done" =>
       \E k \in rdK0..rdK1 :
          SeqsOf(rdOut) = Newest(k, Min(rdN, Min(k, RingCap)))

\* C16 witness: a call that took the lock while a writer was between its
\* level check and its store returned the full ring, and the writer has
\* stored since
C16_Witness ==
    /\ rdpc = "done"
    /\ Len(rdOut) = RingCap
    /\ rdK0 = RingCap
    /\ nstored > rdK1

CallsTo(f) == {c \in sinkCalls : c.fn = f}

\* C19: one sink at most is registered, SetPersist replacing the one before;
\* an accepted entry is handed exactly once to the sink registered when
\* appendBuf reaches it and to no sink when none is registered; a sink that
\* is not registered gets no entry, so a replaced sink sees nothing of the
\* writes that start after the SetPersist that replaced it returned.
C19_SingleSink ==
    /\ [](persistFn \in Sinks \cup {Nil})
    /\ [](\A c, d \in sinkCalls : c.seq = d.seq => c = d)
    /\ [][\A w \in Writers : Persist(w) =>
              /\ persistFn = Nil => sinkCalls' = sinkCalls
              /\ persistFn # Nil =>
                    /\ sinkCalls' \ sinkCalls =
                          {[fn |-> persistFn, seq |-> went[w].seq]}
                    /\ sinkCalls \subseteq sinkCalls']_vars
    /\ [][\A f \in Sinks : persistFn # f => CallsTo(f)' = CallsTo(f)]_vars
    /\ [][sinkCalls' # sinkCalls => \E w \in Writers : Persist(w)]_vars

\* the first entry went to f1, f2 replaced f1, the second entry went to f2 only
C19_Witness ==
    /\ persistFn = "f2"
    /\ sinkCalls = {[fn |-> "f1", seq |-> 1], [fn |-> "f2", seq |-> 2]}

\* C20: a sink call that did not store its entry has left a log entry about
\* the failure, and the sink's run changes nothing of the write that made
\* the entry: the failure is not raised to the caller of the log write.
C20_SinkFailureLogged ==
    /\ [](\A r \in sinkRan : r.out # "ok" => r.logged)
    /\ [][\A c \in sinkCalls :
             (SinkOk(c) \/ SinkEncodeFail(c) \/ SinkDbFail(c)) =>
                /\ wpc'["w1"] = wpc["w1"]
                /\ went'["w1"] = went["w1"]
                /\ exited' = exited]_vars

\* C21: the write never waits for the sink: its last step can be taken
\* whatever the sink calls are doing; when the sink is started the entry has
\* been stored and broadcast; and a sink call, whatever its outcome, leaves
\* the ring, the subscribers' queues and the writer of the entry as they are.
C21_SinkOffThePath ==
    /\ [](\A w \in Writers : (wpc[w] = "persist" /\ ~exited) => ENABLED Persist(w))
    /\ [](\A c \in sinkCalls : c.seq \in WrittenOut)
    /\ [][\A c \in sinkCalls :
             (SinkOk(c) \/ SinkEncodeFail(c) \/ SinkDbFail(c)) =>
                /\ UNCHANGED <<ringVars, subVars>>
                /\ wpc'["w1"] = wpc["w1"]
                /\ went'["w1"] = went["w1"]]_vars

\* the write of entry 1 has returned, the entry is in the ring and on the
\* subscriber's queue, its sink call failed and that of entry 2 has not run
C21_Witness ==
    /\ wpc["w1"] = "idle"
    /\ \E i \in 0..(RingCap - 1) : recent[i].seq = 1
    /\ Len(chq["c1"]) > 0 /\ chq["c1"][1].seq = 1
    /\ \E r \in sinkRan : r.seq = 1 /\ r.out = "dberr"
    /\ \E c \in SinkPending : c.seq = 2

\* C22: SetLevel stores the value when it is debug, info, error or fatal and
\* stores info for any other value; the threshold is always one of the four
\* levels, and GetLevel returns what the last SetLevel stored.
C22_InvalidLevelIsInfo ==
    /\ [](GetLevel \in {"debug", "info", "error", "fatal"})
    /\ [][\A lvl \in LevelInputs : SetLevel(lvl) =>
             GetLevel' = IF lvl \in {"debug", "info", "error", "fatal"}
                         THEN lvl ELSE "info"]_vars
    /\ [](lvlOut.code = 200 =>
             /\ lvlOut.level = GetLevel
             /\ lvlOut.arg \in {"debug", "info", "error", "fatal"}
                   => GetLevel = lvlOut.arg
             /\ lvlOut.arg \notin {"debug", "info", "error", "fatal"}
                   => GetLevel = "info")
    /\ [][logLevel' # logLevel => \E lvl \in LevelInputs : SetLevel(lvl)]_vars

\* an info write was dropped while the threshold was above info, and the
\* last call then asked for a value that is not a level
C22_Witness ==
    /\ lvlOut = [arg |-> "bogus", code |-> 200, level |-> "info"]
    /\ went["w1"] = [seq |-> 0, level |-> "info"]
    /\ ncalls >= 1
    /\ wpc["w1"] = "idle"

\* ------------------------------------------------------------------------
\* Properties of the copy / move handlers
\* ------------------------------------------------------------------------
IsTerminal(c) == c.t = "body" /\ c.f.kind \in {"done", "error"}

TerminalAt == {i \in 1..Len(stream) : IsTerminal(stream[i])}

\* a step that puts the first bytes of a frame on the response
FrameStarts ==
    /\ Len(stream') = Len(stream) + 1
    /\ stream'[Len(stream')].t = "body"

\* C5: the delete of the source is attempted only after Upload has returned
\* success; as long as it has not (source read or destination write failed,
\* or the request was cancelled first), no delete is issued and the source
\* object is still there.
C5_DeleteOnlyAfterWrite ==
    /\ (hpc = "delete" \/ deleteIssued) => upRes = "ok"
    /\ upRes # "ok" => (srcPresent /\ ~deleteIssued)

\* C5 witness: a cancelled move whose upload failed has returned and the
\* source is still there
C5_Witness ==
    /\ xmode = "move"
    /\ cancelled
    /\ upRes = "err"
    /\ returned
    /\ srcPresent
    /\ ~deleteIssued

\* C6: once a terminal frame (done or error) is on the response, no further
\* frame is started on it.
C6_NoFrameAfterTerminal ==
    [][TerminalAt # {} => ~FrameStarts]_vars

\* C7: when the handler has returned, the reporter it started has stopped,
\* and after the return the reporter handles no tick and writes no part of
\* a frame.
C7_ReporterStoppedAtReturn ==
    /\ [](returned => rpc \in {"none", "exit"})
    /\ [][returned => ~(RSelectTick \/ RWriteBody \/ RWriteNl)]_vars

\* C8: after the client's cancellation the reporter eventually terminates
\* and the handler eventually returns, and the reporter starts no new
\* progress frame.
C8_ReporterTerminates == (cancelled /\ rpc # "none") ~> (rpc = "exit")
C8_HandlerReturns == cancelled ~> returned
C8_NoNewFrame == [][cancelled => ~RSelectTick]_vars
C8_Cancellation ==
    /\ C8_ReporterTerminates
    /\ C8_HandlerReturns
    /\ C8_NoNewFrame

FrameBodies == {i \in 1..Len(stream) : stream[i].t = "body"}

\* C9: a transfer that reached DownloadWithInfo never has more than one
\* terminal frame on its response, and when its handler has returned its
\* stream ends with exactly one: the done frame if the source read, the
\* destination write and (for move) the delete all succeeded, and an error
\* frame otherwise; no frame follows it.
C9_EndsWithOneTerminal ==
    /\ Cardinality(TerminalAt) <= 1
    /\ (returned /\ dlRes # "none") =>
          /\ Cardinality(TerminalAt) = 1
          /\ \A i \in TerminalAt :
                /\ (stream[i].f.kind = "done") <=>
                     (dlRes = "ok" /\ upRes = "ok"
                        /\ (xmode = "move" => delRes = "ok"))
                /\ \A j \in FrameBodies : j <= i

\* the parts of C25 that do not depend on what the reporter writes: after a
\* failed delete the destination object and the source object are both
\* there, no done frame is on the response, and DeleteObject is called once
C25_KeptAndNotRetried ==
    /\ [](delRes = "err" =>
             /\ upRes = "ok"
             /\ dstPresent
             /\ srcPresent
             /\ \A i \in TerminalAt : stream[i].f.kind # "done")
    /\ [][deleteIssued => ~(\E ok \in BOOLEAN : HDelete(ok))]_vars

\* C25: in a move whose destination write succeeded and whose delete of the
\* source failed, the destination object is kept, the delete is not tried
\* again, no done frame is sent, and once the handler has returned the last
\* frame of the stream is the error frame.
C25_DeleteFailure ==
    /\ C25_KeptAndNotRetried
    /\ []((returned /\ delRes = "err") =>
             /\ Cardinality(TerminalAt) = 1
             /\ \A i \in TerminalAt :
                   /\ stream[i].f.kind = "error"
                   /\ \A j \in FrameBodies : j <= i)

\* C26: every frame on the response is a progress frame, the done frame or
\* an error frame; and in a copy of an empty object whose size is not known
\* the first frame is the progress frame with progress 0 and total 0, and a
\* copy that succeeded carries the done frame with progress 100, bytes 0 and
\* total 0.
C26_FramesOfEmptyCopy ==
    /\ \A i \in FrameBodies : stream[i].f.kind \in {"progress", "done", "error"}
    /\ (xmode = "copy" /\ size = 0 /\ total = 0 /\ dlRes = "ok"
          /\ FrameBodies # {}) =>
          /\ stream[1].f.kind = "progress"
          /\ stream[1].f.progress = 0
          /\ stream[1].f.total = 0
    /\ (xmode = "copy" /\ size = 0 /\ total = 0 /\ upRes = "ok" /\ returned) =>
          \E i \in FrameBodies : stream[i].f = DoneFrame(0, 0)

\* C33: on the response every frame's JSON object is directly followed by
\* the newline of the same writer: the writes of the handler and of the
\* progress reporter never interleave inside a frame.
C33_FramesContiguous ==
    \A i \in FrameBodies :
       i < Len(stream) =>
          /\ stream[i + 1].t = "nl"
          /\ stream[i + 1].by = stream[i].by

\* a body that is malformed or lacks srcKey or dstBucket
Rejectable(body) == ~body.decoded \/ body.srcKey = "" \/ body.dstBucket = ""

\* C27: a copy or move request whose body is malformed or lacks srcKey or
\* dstBucket is answered with 400 and the handler returns; a request answered
\* with 400 has issued no get, put or delete, started no reporter and put
\* nothing on the response.
C27_RejectedBeforeTransfer ==
    /\ [][\A pid \in Pids, body \in Bodies :
             (Rejectable(body) /\ HValidate(ValidRequest(pid, body))) =>
                /\ httpStatus' = 400
                /\ hpc' = "return"]_vars
    /\ [](httpStatus = 400 =>
             /\ stream = <<>>
             /\ dlRes = "none" /\ upRes = "none" /\ delRes = "none"
             /\ ~deleteIssued /\ ~dstPresent /\ srcPresent
             /\ rpc = "none"
             /\ hpc \in {"return", "returned"} \/ returned)

\* a move request was answered with 400 and its handler has returned
C27_Witness ==
    /\ xmode = "move"
    /\ httpStatus = 400
    /\ returned
    /\ stream = <<>>

\* C28: with a maximum configured, an upload that got as far as reading its
\* multipart body, and whose body is larger than the maximum, is answered
\* with 413 and stores no object.
C28_TooLargeIs413 ==
    (upc = "done" /\ upLimit > 0 /\ upRead > 0 /\ BodySize(upBody) > upLimit) =>
        /\ upStatus = 413
        /\ ~upStored

\* the traces of the window whose status lies in lo..hi
StatusIn(lo, hi) ==
    Cardinality({i \in 1..Len(aggWin) :
                    aggWin[i].status >= lo /\ aggWin[i].status <= hi})

\* C29: the status histogram counts under 5xx the traces with status 500 or
\* more, under 4xx those from 400 to 499, under 3xx those from 300 to 399
\* and under 2xx all the others (0 and 1xx too); the four counts add up to
\* the number of traces in the window.
C29_StatusHistogram ==
    aggDone =>
       LET sc == aggOut.statusCounts
       IN  /\ DOMAIN sc = {"2xx", "3xx", "4xx", "5xx"}
           /\ sc["5xx"] = Cardinality({i \in 1..Len(aggWin) : aggWin[i].status >= 500})
           /\ sc["4xx"] = StatusIn(400, 499)
           /\ sc["3xx"] = StatusIn(300, 399)
           /\ sc["2xx"] = Cardinality({i \in 1..Len(aggWin) : aggWin[i].status < 300})
           /\ sc["2xx"] + sc["3xx"] + sc["4xx"] + sc["5xx"] = Len(aggWin)

\* a window with status 0, status 101 and status 500: two under 2xx, one
\* under 5xx
C29_Witness ==
    /\ aggDone
    /\ Len(aggWin) = 3
    /\ {aggWin[i].status : i \in 1..3} = {0, 101, 500}
    /\ aggOut.statusCounts["2xx"] = 2
    /\ aggOut.statusCounts["5xx"] = 1

\* ------------------------------------------------------------------------
\* Properties of the trace store
\* ------------------------------------------------------------------------
Terminal(x) ==
    [status |-> x.status, started |-> x.started, ended |-> x.ended,
     duration |-> x.duration, respBytes |-> x.respBytes]

RowTerminal(x) ==
    [status |-> x.status, started |-> x.started, ended |-> x.ended,
     duration |-> x.durationNs, respBytes |-> x.respBytes]

C23_TerminalFields ==
    /\ [][\A r \in Reqs : TFinish(r) =>
             /\ trace'[r].status = recCode[r]
             /\ trace'[r].ended >= trace'[r].started
             /\ trace'[r].duration = trace'[r].ended - trace'[r].started
             /\ trace'[r].started = trace[r].started]_vars
    /\ [][\A r \in Reqs : THandlerOk(r) => recCode'[r] = 200]_vars
    /\ [](\A r \in Reqs :
             (tpc[r] \in {"save", "events", "done"} /\ trace[r] # NoTrace) =>
             /\ trace[r].ended >= trace[r].started
             /\ trace[r].duration = trace[r].ended - trace[r].started
             /\ Terminal(trace[r]) = Terminal(finished[r]))
    /\ [][\A r \in Reqs : \A ok \in BOOLEAN : (TSaveRow(r, ok) /\ ok) =>
             \E x \in dbRows' :
                /\ x.id = r
                /\ RowTerminal(x) = Terminal(trace[r])
                /\ x.ended >= x.started
                /\ x.durationNs = x.ended - x.started]_vars

\* a trace whose handler wrote no status and one whose handler answered 500
\* are both stored, the second one lasted a tick of the clock
C23_Witness ==
    \E x, y \in dbRows :
       /\ x.status = 200
       /\ y.status = 500
       /\ y.durationNs > 0
       /\ y.ended > y.started

\* the rows of the durable store started later than x
StartedAfter(x) == {y \in dbRows : y.started > x.started}

\* C24: a read of the recent traces with limit n returns at most n traces,
\* newest first, and they are the n most recently started of the stored
\* traces (all of them when fewer than n are stored).
C24_RecentLimit ==
    trOut.done =>
       LET ids == trOut.ids
           k == Len(ids)
           c == Cardinality(dbRows)
           RowOf(id) == CHOOSE x \in dbRows : x.id = id
       IN  /\ k <= trOut.n
           /\ k = IF c < trOut.n THEN c ELSE trOut.n
           /\ \A i \in 1..k : \E x \in dbRows : x.id = ids[i]
           /\ \A i, j \in 1..k : i < j =>
                  RowOf(ids[i]).started >= RowOf(ids[j]).started
           /\ \A i \in 1..k : Cardinality(StartedAfter(RowOf(ids[i]))) < trOut.n

\* the stored events of trace id in the order persistTrace inserted them,
\* which is the order the request appended them (the row ids grow with
\* every insert)
RECURSIVE ByRowId(_)
ByRowId(evs) ==
    IF evs = {} THEN <<>>
    ELSE LET e == CHOOSE x \in evs : \A y \in evs : x.rowid <= y.rowid
         IN  <<[time |-> e.time, name |-> e.name]>> \o ByRowId(evs \ {e})

AppendOrder(id) == ByRowId({e \in dbEvents : e.traceId = id})

\* C11: a read by id of a persisted trace returns its stored events in
\* exactly the order in which the owning request appended them, also when
\* two consecutive events carry the same timestamp.
C11_EventsInAppendOrder ==
    getOut.found => getOut.events = AppendOrder(getOut.id)

\* C35: a trace the middleware has finished starts with the request.start
\* event and ends with the request.end event, and the events of the handler
\* lie between the two.
C35_StartAndEndEvents ==
    \A r \in Reqs :
       (trace[r] # NoTrace /\ tpc[r] \notin {"new", "handler", "finish"}) =>
          LET evs == trace[r].events IN
             /\ Len(evs) >= 2
             /\ evs[1].name = "request.start"
             /\ evs[Len(evs)].name = "request.end"
             /\ \A i \in 2..(Len(evs) - 1) : evs[i].name \in {"op", "error"}

\* C38: a call of respondError with code and msg on a request whose context
\* carries a trace appends one event named error with that code and message
\* behind the events the trace had and changes nothing else of the trace,
\* and the response gets the status code; on a request without a trace it
\* changes no trace and the response gets the status code.
C38_RespondError ==
    [][\A r \in Reqs, code \in RespondCodes, msg \in Messages :
          respondError(r, code, msg) =>
             /\ recCode'[r] = code
             /\ \A q \in Reqs \ {r} : trace'[q] = trace[q] /\ recCode'[q] = recCode[q]
             /\ IF tpc[r] = "handler"
                THEN /\ Len(trace'[r].events) = Len(trace[r].events) + 1
                     /\ SubSeq(trace'[r].events, 1, Len(trace[r].events)) =
                           trace[r].events
                     /\ LET e == trace'[r].events[Len(trace'[r].events)] IN
                           /\ e.name = "error"
                           /\ e.fields = [code |-> code, message |-> msg]
                     /\ [trace'[r] EXCEPT !.events = <<>>] =
                           [trace[r] EXCEPT !.events = <<>>]
                ELSE trace'[r] = trace[r]]_vars

\* C38 witness: a trace with two earlier events and then the error event
\* with code 418 and message m2, and the response with status 418
C38_Witness ==
    /\ tpc["r1"] = "finish"
    /\ Len(trace["r1"].events) = 3
    /\ trace["r1"].events[1].name = "op"
    /\ trace["r1"].events[3].name = "error"
    /\ trace["r1"].events[3].fields = [code |-> 418, message |-> "m2"]
    /\ recCode["r1"] = 418

\* a request without a trace that respondError answered with 418: no trace
\* was made or changed
C38_WitnessNoTrace ==
    /\ tpc["r2"] = "answered"
    /\ trace["r2"] = NoTrace
    /\ recCode["r2"] = 418

InRingOfTraces(r) == \E i \in 0..(TraceCap - 1) : tbuf[i] = r

\* C12: while a request's handler is running, before its trace is finished,
\* the trace is already in the in-memory trace ring.
C12_InRingAtStart ==
    \A r \in Reqs : tpc[r] \in {"handler", "finish"} => InRingOfTraces(r)

\* ------------------------------------------------------------------------
\* Properties of the aggregation
\* ------------------------------------------------------------------------
Below(vals, v) == Cardinality({i \in 1..Len(vals) : vals[i] < v})
UpTo(vals, v) == Cardinality({i \in 1..Len(vals) : vals[i] <= v})

\* the element at 0-based index idx of vals sorted ascending
RankedAt(vals, idx) ==
    CHOOSE v \in {vals[i] : i \in 1..Len(vals)} :
        Below(vals, v) <= idx /\ idx < UpTo(vals, v)

FloorDiv(a, b) == IF a >= 0 THEN a \div b ELSE -((-a + b - 1) \div b)

ClampIdx(i, n) == IF i < 0 THEN 0 ELSE IF i > n - 1 THEN n - 1 ELSE i

\* C14: percentile(p) of a non-empty sample of N latencies is the element at
\* index floor(p/100 * (N-1)), clamped to [0, N-1], of the sample sorted
\* ascending, and so a member of the sample; of an empty sample it is 0; the
\* call leaves the sample as it was.
C14_Percentile ==
    /\ [](pctDone =>
            IF Len(lats) = 0 THEN pctOut = 0
            ELSE /\ pctOut = RankedAt(lats,
                               ClampIdx(FloorDiv(pctP * (Len(lats) - 1), 100),
                                        Len(lats)))
                 /\ \E i \in 1..Len(lats) : lats[i] = pctOut)
    /\ [][\A p \in Ranks : PercentileCall(p) => lats' = lats]_vars

\* C14 witness: p95 of [10, 20, 30, 40, 50], given out of order, is 40
C14_Witness ==
    /\ lats = <<50, 10, 40, 20, 30>>
    /\ pctDone
    /\ pctP = 95
    /\ pctOut = 40

\* C13: the view always has exactly 12 per-minute buckets, for the 12
\* consecutive minutes that end at the minute of the call, oldest first,
\* whatever the window; with no trace in the window every bucket has count 0
\* and errors 0.
C13_TwelveBuckets ==
    aggDone =>
       /\ Len(aggOut.perMinute) = 12
       /\ \A i \in 1..12 :
             aggOut.perMinute[i].k = TruncMinute(aggNow) - 60 * (12 - i)
       /\ aggWin = <<>> =>
             \A i \in 1..12 : /\ aggOut.perMinute[i].count = 0
                              /\ aggOut.perMinute[i].errors = 0

\* C13 witness: a call on an empty window
C13_Witness ==
    /\ aggDone
    /\ aggWin = <<>>
    /\ aggOut.perMinute[12] = [k |-> TruncMinute(aggNow), count |-> 0, errors |-> 0]

\* the traces of the window that started in minute m
StartedIn(m) == {i \in 1..Len(aggWin) : TruncMinute(aggWin[i].started) = m}

\* C36: the count of each per-minute bucket is the number of traces of the
\* window that started in its minute, and its errors the number of those
\* with status >= 400, never more than the count; the buckets are the 12
\* seeded minutes whatever the window holds, so a trace that started in
\* another minute is counted nowhere.
C36_BucketCounts ==
    aggDone =>
       LET pm == aggOut.perMinute IN
          /\ {pm[i].k : i \in 1..Len(pm)} = BucketKeys(aggNow)
          /\ Len(pm) = Cardinality(BucketKeys(aggNow))
          /\ \A i \in 1..Len(pm) :
                /\ pm[i].count = Cardinality(StartedIn(pm[i].k))
                /\ pm[i].errors =
                      Cardinality({j \in StartedIn(pm[i].k) : aggWin[j].status >= 400})
                /\ pm[i].errors <= pm[i].count
          /\ SumSeq([i \in 1..Len(pm) |-> pm[i].count]) =
                Cardinality({j \in 1..Len(aggWin) :
                               TruncMinute(aggWin[j].started) \in BucketKeys(aggNow)})

\* C36 witness: a window with a trace from before the seeded minutes and a
\* 404 and a 200 in the minute before the call: that bucket has count 2 and
\* errors 1, and the old trace is in no bucket
C36_Witness ==
    /\ aggDone
    /\ Len(aggWin) = 3
    /\ aggWin[3].started = 300
    /\ aggWin[1].started = 960 /\ aggWin[1].status = 404
    /\ aggWin[2].started = 960 /\ aggWin[2].status = 200
    /\ aggOut.perMinute[11] = [k |-> 960, count |-> 2, errors |-> 1]
    /\ \A i \in 1..12 : aggOut.perMinute[i].k # 300
    /\ SumSeq([i \in 1..12 |-> aggOut.perMinute[i].count]) = 2

\* the paths of the window with at least 3 traces, and the p95 of a path
Eligible == {q \in PathsOf(aggWin) : Len(RowsOf(aggWin, q)) >= 3}

P95Of(q) == percentile(PAgg(aggWin, q).lats, 95)

\* C30: the slow list names only paths with at least 3 traces in the window,
\* each once and with its p95; it is ordered by p95 descending; it holds all
\* such paths when they are 5 or fewer and 5 of them otherwise, and a path
\* with at least 3 traces that is left out has no higher p95 than any
\* listed one.
C30_TopSlow ==
    aggDone =>
       LET ts == aggOut.topSlow
           listed == {ts[i].path : i \in 1..Len(ts)}
       IN  /\ listed \subseteq Eligible
           /\ Cardinality(listed) = Len(ts)
           /\ Len(ts) = Min(Cardinality(Eligible), 5)
           /\ \A i \in 1..Len(ts) :
                 /\ ts[i].k = P95Of(ts[i].path)
                 /\ ts[i].count = Len(RowsOf(aggWin, ts[i].path))
           /\ \A i, j \in 1..Len(ts) : i < j => ts[i].k >= ts[j].k
           /\ \A q \in Eligible \ listed :
                 \A i \in 1..Len(ts) : P95Of(q) <= ts[i].k

\* seven paths: the first has two traces and the highest latency and is not
\* listed; of the six others one is cut, and it is slower than none listed
\* and faster than none
C30_Witness ==
    /\ aggDone
    /\ Cardinality(PathsOf(aggWin)) = 7
    /\ Len(RowsOf(aggWin, "/p1")) = 2
    /\ aggWin[1].ms = 30
    /\ Cardinality(Eligible) = 6
    /\ Len(aggOut.topSlow) = 5
    /\ aggOut.topSlow[1].k = 20
    /\ aggOut.topSlow[5].k = 20
    /\ \E q \in Eligible : \A i \in 1..5 :
           aggOut.topSlow[i].path # q /\ P95Of(q) = 10

\* the paths of the window with at least one trace of status >= 400, and
\* the number of such traces of a path
ErrPaths == {q \in PathsOf(aggWin) :
                \E i \in 1..Len(aggWin) : aggWin[i].path = q /\ aggWin[i].status >= 400}

ErrCount(q) ==
    Cardinality({i \in 1..Len(aggWin) : aggWin[i].path = q /\ aggWin[i].status >= 400})

\* C31: the error list names exactly the paths with at least one trace of
\* status >= 400 in the window when they are 8 or fewer, and 8 of them
\* otherwise, each once and with its number of such traces; it is ordered by
\* that number descending, and a path left out by the cut has no more such
\* traces than any listed one.
C31_TopErrors ==
    aggDone =>
       LET te == aggOut.topErrors
           listed == {te[i].path : i \in 1..Len(te)}
       IN  /\ listed \subseteq ErrPaths
           /\ Cardinality(listed) = Len(te)
           /\ Len(te) = Min(Cardinality(ErrPaths), 8)
           /\ \A i \in 1..Len(te) : te[i].k = ErrCount(te[i].path)
           /\ \A i, j \in 1..Len(te) : i < j => te[i].k >= te[j].k
           /\ \A q \in ErrPaths \ listed :
                 \A i \in 1..Len(te) : ErrCount(q) <= te[i].k

\* nine paths with errors, one of them with a single error trace is cut,
\* the list starts with a path of two error traces
C31_Witness ==
    /\ aggDone
    /\ Cardinality(ErrPaths) = 9
    /\ Len(aggOut.topErrors) = 8
    /\ aggOut.topErrors[1].k = 2
    /\ aggOut.topErrors[8].k = 1
    /\ \E q \in ErrPaths : \A i \in 1..8 :
           aggOut.topErrors[i].path # q /\ ErrCount(q) = 1

\* C32: obsSummary always answers 200 with a view that has the four status
\* counts, 12 buckets and the two top lists, also when the query for the
\* trace rows or a query for a trace's error event fails; when no trace was
\* read all counts are 0 and the lists are empty.
C32_NeverFails ==
    aggDone =>
       /\ aggStatus = 200
       /\ DOMAIN aggOut.statusCounts = {"2xx", "3xx", "4xx", "5xx"}
       /\ \A k \in DOMAIN aggOut.statusCounts : aggOut.statusCounts[k] \in Nat
       /\ Len(aggOut.perMinute) = 12
       /\ \A i \in 1..12 : /\ aggOut.perMinute[i].count \in Nat
                            /\ aggOut.perMinute[i].errors \in Nat
       /\ Len(aggOut.topSlow) \in 0..TopSlowCut
       /\ Len(aggOut.topErrors) \in 0..TopErrorsCut
       /\ Len(aggOut.recentLatencies) = Len(aggWin)
       /\ aggWin = <<>> =>
             /\ \A k \in DOMAIN aggOut.statusCounts : aggOut.statusCounts[k] = 0
             /\ \A i \in 1..12 : /\ aggOut.perMinute[i].count = 0
                                  /\ aggOut.perMinute[i].errors = 0
             /\ aggOut.topSlow = <<>>
             /\ aggOut.topErrors = <<>>
             /\ aggOut.recentLatencies = <<>>

\* C32 witness: a call whose query for the trace rows failed
C32_Witness ==
    /\ aggDone
    /\ ~aggReadOk
    /\ aggStatus = 200
    /\ Len(aggOut.perMinute) = 12
    /\ aggOut.topErrors = <<>>

\* a call on a window with an error trace whose event query failed: the
\* path is listed, without a message
C32_WitnessEvents ==
    /\ aggDone
    /\ aggReadOk
    /\ \E i \in 1..Len(aggWin) : aggWin[i].status >= 400 /\ aggWin[i].ev = "fail"
    /\ Len(aggOut.topErrors) = 1
    /\ aggOut.topErrors[1].lastMessage = ""
    /\ aggStatus = 200

\* the error traces of path q in the window that no other error trace of q
\* started after
NewestErr(q) ==
    {i \in 1..Len(aggWin) :
        /\ aggWin[i].path = q
        /\ aggWin[i].status >= 400
        /\ \A j \in 1..Len(aggWin) :
              (aggWin[j].path = q /\ aggWin[j].status >= 400) =>
                 aggWin[j].started <= aggWin[i].started}

\* C37: for each path of the error list there is one most recently started
\* error trace of the path that sampleTraceId names, whose status is
\* lastStatus and whose latest error event's message is lastMessage (empty
\* when the trace has no such message).
C37_LastFromNewestError ==
    aggDone =>
       \A k \in 1..Len(aggOut.topErrors) :
          LET it == aggOut.topErrors[k] IN
             \E i \in NewestErr(it.path) :
                /\ it.sampleTraceId = aggWin[i].id
                /\ it.lastStatus = aggWin[i].status
                /\ it.lastMessage =
                      (IF aggWin[i].ev \in Messages THEN aggWin[i].ev ELSE "")

\* where a path is first seen in the window
FirstSeen(win, path) ==
    CHOOSE i \in 1..Len(win) :
        win[i].path = path /\ \A j \in 1..(i - 1) : win[j].path # path

\* the paths ps ranked by key descending, equal keys by first-seen order
StableRank(win, ps, key(_)) ==
    CHOOSE f \in Orders(ps) :
        \A i, j \in 1..Cardinality(ps) :
           i < j => \/ key(f[i]) > key(f[j])
                    \/ /\ key(f[i]) = key(f[j])
                       /\ FirstSeen(win, f[i]) < FirstSeen(win, f[j])

PathsIn(list) == [i \in 1..Len(list) |-> list[i].path]

\* C15: for a given window the view is the same on every run: the slow list
\* and the error list rank paths of equal p95, or of equal error count, by
\* first-seen path order, and the cuts keep the first of the ranking.
C15_Deterministic ==
    aggDone =>
       /\ PathsIn(aggOut.topErrors) =
            Cut(StableRank(aggWin,
                           {q \in PathsOf(aggWin) : PAgg(aggWin, q).errs > 0},
                           LAMBDA q : PAgg(aggWin, q).errs),
                TopErrorsCut)
       /\ PathsIn(aggOut.topSlow) =
            Cut(StableRank(aggWin,
                           {q \in PathsOf(aggWin) : PAgg(aggWin, q).count >= MinSlow},
                           LAMBDA q : percentile(PAgg(aggWin, q).lats, 95)),
                TopSlowCut)

====
